---- MODULE Spec2Model ----
(***************************************************************************)
(* A model of the marshaling layer of veertu_cli (veertu_manager.py): the  *)
(* process invoker and response decoding of _call_veertu_app, the response *)
(* tokenizer _split_and_strip, the identifier resolver                     *)
(* _call_veertu_with_name_fallback and the operation tracker               *)
(* progress / progress_loop.                                               *)
(*                                                                         *)
(* Text.  A Python str is a sequence of characters, each a one-character   *)
(* string.  The symbol MissingValue stands for one occurrence of the       *)
(* substring 'missing value' in a text whose other characters cannot form  *)
(* that substring; str.replace('missing value', '-') therefore rewrites    *)
(* exactly the MissingValue symbols.                                       *)
(*                                                                         *)
(* Options.  The body of _call_veertu_app reads its options with           *)
(* kwargs.get(...) (lines 156, 174-176, 216, 225, 231); kwargs is modelled *)
(* as the mapping of the keyword arguments given at the call site, which   *)
(* is what every call site of the function passes.                         *)
(*                                                                         *)
(* Numbers.  float values are modelled as exact decimals (an integer       *)
(* numerator over a power of ten); IEEE rounding is not modelled.          *)
(***************************************************************************)
EXTENDS Integers, Sequences, FiniteSets, TLC

VARIABLES
    pc,       \* position of the running operation
    op,       \* the operation under way and its arguments
    spawned,  \* the osascript processes the operation has spawned, in order
    slept,    \* number of time.sleep(1) calls the operation has made
    result,   \* what the operation returned or raised
    app,      \* self.app: the name the application is addressed by
    vms,      \* the VMs the application holds, as <<id, name>> pairs
    echoed,   \* the lines the command-line interface has echoed, in order
    exit_code, \* the exit status of the command-line process, once it has one
    bar       \* the locals of the running progress bar of the interface

vars == <<pc, op, spawned, slept, result, app, vms, echoed, exit_code, bar>>

(***************************************************************************)
(* Bounds of the model.                                                    *)
(***************************************************************************)
MaxLen == 5
MaxPolls == 3

(***************************************************************************)
(* Python str helpers.                                                     *)
(***************************************************************************)
MissingValue == "missing value"

Whitespace == {" ", "\n", "\t"}

Digits == {"0", "1", "2", "3", "4", "5", "6", "7", "8", "9"}

\* All texts of length at most n over the alphabet A.
TextsUpTo(A, n) == UNION {[1..k -> A] : k \in 0..n}

RECURSIVE lstrip(_)
lstrip(s) ==
    IF Len(s) > 0 /\ Head(s) \in Whitespace THEN lstrip(Tail(s)) ELSE s

RECURSIVE rstrip(_)
rstrip(s) ==
    IF Len(s) > 0 /\ s[Len(s)] \in Whitespace
    THEN rstrip(SubSeq(s, 1, Len(s) - 1))
    ELSE s

\* str.strip()
strip(s) == rstrip(lstrip(s))

\* str.split(sep) for a one-character separator: always at least one piece.
RECURSIVE split(_, _)
split(s, sep) ==
    IF \E i \in 1..Len(s) : s[i] = sep
    THEN LET i == CHOOSE k \in 1..Len(s) :
                      s[k] = sep /\ \A j \in 1..(k - 1) : s[j] # sep
         IN  <<SubSeq(s, 1, i - 1)>> \o split(SubSeq(s, i + 1, Len(s)), sep)
    ELSE <<s>>

\* item.replace('missing value', '-')
replace_missing_value(item) ==
    [i \in 1..Len(item) |-> IF item[i] = MissingValue THEN "-" ELSE item[i]]

LowerChar(c) ==
    CASE c = "T" -> "t" [] c = "R" -> "r" [] c = "U" -> "u" [] c = "E" -> "e"
      [] c = "F" -> "f" [] c = "A" -> "a" [] c = "L" -> "l" [] c = "S" -> "s"
      [] OTHER -> c

\* str.lower()
lower(s) == [i \in 1..Len(s) |-> LowerChar(s[i])]

\* The digit characters as numbers.
DigitValue(c) ==
    CASE c = "0" -> 0 [] c = "1" -> 1 [] c = "2" -> 2 [] c = "3" -> 3
      [] c = "4" -> 4 [] c = "5" -> 5 [] c = "6" -> 6 [] c = "7" -> 7
      [] c = "8" -> 8 [] c = "9" -> 9

RECURSIVE DigitsValue(_)
DigitsValue(s) ==
    IF Len(s) = 0 THEN 0
    ELSE 10 * DigitsValue(SubSeq(s, 1, Len(s) - 1)) + DigitValue(s[Len(s)])

AllDigits(s) == \A i \in 1..Len(s) : s[i] \in Digits

HasSign(s) == Len(s) > 0 /\ Head(s) \in {"-", "+"}

Unsigned(s) == IF HasSign(s) THEN Tail(s) ELSE s

\* int(text) succeeds: surrounding whitespace, an optional sign, digits.
IntParses(text) ==
    LET t == strip(text)
    IN  Len(Unsigned(t)) > 0 /\ AllDigits(Unsigned(t))

\* int(text), defined when IntParses(text).
IntOf(text) ==
    LET t == strip(text)
        n == DigitsValue(Unsigned(t))
    IN  IF HasSign(t) /\ Head(t) = "-" THEN 0 - n ELSE n

(***************************************************************************)
(* Outcomes of a call: a returned value with its Python type, or a raised  *)
(* exception with its class.                                               *)
(***************************************************************************)
Return(type, value) == [kind |-> "return", type |-> type, value |-> value]

Raise(exc) == [kind |-> "raise", type |-> exc, value |-> <<>>]

NoResult == [kind |-> "none", type |-> "none", value |-> <<>>]

\* The value of exit_code while the process has not exited.
NoExitCode == -1

\* The value of bar while no progress bar is open.
NoBar == [length |-> 0, pos |-> 0, progress |-> 0, previous_progress |-> 0]

ManagerExceptions ==
    {"VeertuManagerException", "VMNotFoundException", "NoOutputFileSpecified",
     "InternalAppError", "ImportExportFailedException",
     "WrongProjectionException", "VeertuAppNotFoundException"}

\* `except cls:` catches an exception of class exc.
Catches(cls, exc) ==
    \/ exc = cls
    \/ cls = "VeertuManagerException" /\ exc \in ManagerExceptions

(***************************************************************************)
(* Response tokenizer.                                                     *)
(***************************************************************************)
\* Mutant of split_and_strip: the lone empty item is not collapsed.
split_and_strip_uncollapsed(str_list_input) ==
    LET pieces == split(str_list_input, ",")
    IN  [i \in 1..Len(pieces) |-> replace_missing_value(strip(pieces[i]))]

split_and_strip(str_list_input) ==
    LET pieces == split(str_list_input, ",")
        items  == [i \in 1..Len(pieces) |->
                      replace_missing_value(strip(pieces[i]))]
    IN  IF Len(items) = 1 /\ items[1] = <<>> THEN <<>> ELSE items

(***************************************************************************)
(* Projection decoder.  A projection (an OrderedDict) is a sequence of     *)
(* <<key, is_return>> pairs with distinct keys; a decoded record (an       *)
(* OrderedDict) is a sequence of <<key, value>> pairs in insertion order.  *)
(***************************************************************************)
PyNone == <<"None">>

\* The loop of _turn_into_dict from projection entry p on, with
\* list_output_idx = idx (0-based).
RECURSIVE turn_into_dict_from(_, _, _, _)
turn_into_dict_from(list_output, projection, p, idx) ==
    IF p > Len(projection) THEN <<>>
    ELSE LET key       == projection[p][1]
             is_return == projection[p][2]
         IN  IF idx < Len(list_output)
             THEN (IF is_return THEN <<<<key, list_output[idx + 1]>>>> ELSE <<>>)
                  \o turn_into_dict_from(list_output, projection, p + 1, idx + 1)
             ELSE (IF is_return THEN <<<<key, PyNone>>>> ELSE <<>>)
                  \o turn_into_dict_from(list_output, projection, p + 1, idx)

turn_into_dict(list_output, projection) ==
    turn_into_dict_from(list_output, projection, 1, 0)

\* Mutant of next_output_idx: the index advances only past a retained field.
next_output_idx_retained_only(current_output_idx, is_return) ==
    IF is_return THEN current_output_idx + 1 ELSE current_output_idx

\* current_output_idx after one projection entry has been read (line 210).
next_output_idx(current_output_idx, is_return) == current_output_idx + 1

\* Mutant of record_entry: the inclusion flag is ignored.
record_entry_unfiltered(key, item, is_return) == <<<<key, item>>>>

\* The entry a projection item contributes to the record (lines 211-212).
record_entry(key, item, is_return) ==
    IF is_return THEN <<<<key, item>>>> ELSE <<>>

\* The inner loop (lines 208-212) from projection entry p on: the record
\* built and the value of current_output_idx after it.
RECURSIVE fill_record(_, _, _, _)
fill_record(list_output, projection, p, current_output_idx) ==
    IF p > Len(projection) THEN [rec |-> <<>>, idx |-> current_output_idx]
    ELSE LET key       == projection[p][1]
             is_return == projection[p][2]
             item      == list_output[current_output_idx + 1]
             rest      == fill_record(list_output, projection, p + 1,
                              next_output_idx(current_output_idx, is_return))
         IN  [rec |-> record_entry(key, item, is_return) \o rest.rec,
              idx |-> rest.idx]

\* The outer loop (lines 207-213): the records still to be built.
RECURSIVE fill_records(_, _, _, _)
fill_records(list_output, projection, remaining, current_output_idx) ==
    IF remaining = 0 THEN <<>>
    ELSE LET one == fill_record(list_output, projection, 1, current_output_idx)
         IN  <<one.rec>>
             \o fill_records(list_output, projection, remaining - 1, one.idx)

\* Mutant of shape_matches: the remainder is not checked.
shape_unchecked(list_output_length, projection_length) == TRUE

\* The divisibility test of line 191.
shape_matches(list_output_length, projection_length) ==
    list_output_length % projection_length = 0

\* Mutant of decode_projection: a single record is returned in a list.
decode_projection_wrapped(tokens, projection, return_list_of_dicts) ==
    LET projection_length == Len(projection)
        empty_result == IF return_list_of_dicts THEN Return("list", <<>>)
                        ELSE Return("dict", <<>>)
        blank == Len(tokens) = 1 /\ tokens[1] = <<>>
    IN  IF projection_length = 0
        THEN IF tokens = <<>> \/ blank THEN empty_result
             ELSE Raise("WrongProjectionException")
        ELSE LET list_output == IF blank THEN <<>> ELSE tokens
                 list_output_length == Len(list_output)
                 objects_returned == list_output_length \div projection_length
             IN  IF ~shape_matches(list_output_length, projection_length)
                 THEN Raise("WrongProjectionException")
                 ELSE IF objects_returned = 0 THEN empty_result
                 ELSE Return("list",
                          fill_records(list_output, projection,
                                       objects_returned, 0))

\* Lines 178-213 of _call_veertu_app.
decode_projection(tokens, projection, return_list_of_dicts) ==
    LET projection_length == Len(projection)
        empty_result == IF return_list_of_dicts THEN Return("list", <<>>)
                        ELSE Return("dict", <<>>)
        blank == Len(tokens) = 1 /\ tokens[1] = <<>>
    IN  IF projection_length = 0
        THEN IF tokens = <<>> \/ blank THEN empty_result
             ELSE Raise("WrongProjectionException")
        ELSE LET list_output == IF blank THEN <<>> ELSE tokens
                 list_output_length == Len(list_output)
                 objects_returned == list_output_length \div projection_length
             IN  IF ~shape_matches(list_output_length, projection_length)
                 THEN Raise("WrongProjectionException")
                 ELSE IF objects_returned = 0 THEN empty_result
                 ELSE IF objects_returned = 1 /\ ~return_list_of_dicts
                 THEN Return("dict", turn_into_dict(list_output, projection))
                 ELSE Return("list",
                          fill_records(list_output, projection,
                                       objects_returned, 0))

(***************************************************************************)
(* Scalar and number decoding (lines 215-229).                             *)
(***************************************************************************)
TrueText == <<"t", "r", "u", "e">>

is_int_parsed(num_str) == IntParses(num_str)

\* The comparison of line 219.
is_true_literal(osscript_output) == lower(osscript_output) = TrueText

\* Mutant of decode_scalar: any integer counts as true.
decode_scalar_any_int(osscript_output) ==
    IF is_int_parsed(osscript_output) THEN Return("bool", TRUE)
    ELSE IF is_true_literal(osscript_output) THEN Return("bool", TRUE)
    ELSE Return("bool", FALSE)

decode_scalar(osscript_output) ==
    IF is_int_parsed(osscript_output)
    THEN Return("bool", IntOf(osscript_output) # 0)
    ELSE IF is_true_literal(osscript_output) THEN Return("bool", TRUE)
    ELSE Return("bool", FALSE)

decode_number(osscript_output) ==
    IF IntParses(osscript_output) THEN Return("int", IntOf(osscript_output))
    ELSE Raise("InternalAppError")

(***************************************************************************)
(* Process invoker and option dispatch: _call_veertu_app.  A process       *)
(* outcome is [rc, out, err]: the exit status, standard output and         *)
(* standard error of one osascript run.  Standard error is a sequence of   *)
(* message fragments.                                                      *)
(***************************************************************************)
CantBeFound == "Application can't be found"

NotRunning == "Application not running"

\* kwargs.get(key, default)
Get(kwargs, key, default) ==
    IF key \in DOMAIN kwargs THEN kwargs[key] ELSE default

Contains(text, fragment) == \E i \in 1..Len(text) : text[i] = fragment

\* str(e) of the CalledProcessError, used when stderr is empty (line 167).
CalledProcessErrorStr == <<"returned non-zero exit status">>

\* Mutant of classify_failure: only the first pattern is looked for.
classify_failure_first_pattern(err) ==
    LET error_message == IF Len(err) > 0 THEN strip(err)
                         ELSE CalledProcessErrorStr
    IN  IF Contains(error_message, CantBeFound)
        THEN Raise("VeertuAppNotFoundException")
        ELSE Raise("VeertuManagerException")

\* Lines 165-171: the classification of a nonzero exit.
classify_failure(err) ==
    LET error_message == IF Len(err) > 0 THEN strip(err)
                         ELSE CalledProcessErrorStr
    IN  IF Contains(error_message, CantBeFound)
           \/ Contains(error_message, NotRunning)
        THEN Raise("VeertuAppNotFoundException")
        ELSE Raise("VeertuManagerException")

\* The test of line 174 that selects the projection decoder.
wants_projection(kwargs) ==
    Get(kwargs, "return_as_dict", Get(kwargs, "return_list_of_dicts", FALSE))

\* Lines 174-234: decoding of the output of a successful run.
decode_output(osscript_output, kwargs) ==
    IF wants_projection(kwargs)
    THEN decode_projection(split_and_strip(osscript_output),
                           Get(kwargs, "projection", <<>>),
                           Get(kwargs, "return_list_of_dicts", FALSE))
    ELSE LET stripped == strip(osscript_output)
         IN  IF Get(kwargs, "scalar", FALSE) THEN decode_scalar(stripped)
             ELSE IF Get(kwargs, "number", FALSE) THEN decode_number(stripped)
             ELSE IF Get(kwargs, "return_formatted", TRUE)
             THEN Return("tokens", split_and_strip(stripped))
             ELSE Return("str", stripped)

\* The rc of a process that could not be started: check_output (line 163)
\* raises OSError before there is an exit status (osascript is not
\* installed or not executable).  Started processes have rc >= 0.
NotStartedRc == -1

NotStarted == [rc |-> NotStartedRc, out |-> <<>>, err |-> <<>>]

call_veertu_app(proc, kwargs) ==
    IF proc.rc = NotStartedRc THEN Raise("OSError")
    ELSE IF proc.rc # 0 THEN classify_failure(proc.err)
    ELSE decode_output(strip(proc.out), kwargs)

(***************************************************************************)
(* Specification Spec: one call of _call_veertu_app, or one call of the    *)
(* tokenizer, on inputs drawn from bounded sets.                           *)
(***************************************************************************)
Fields == <<"id", "name", "status">>

\* Every projection over a prefix of Fields, with every choice of flags.
Projections ==
    {[i \in 1..Len(f) |-> <<Fields[i], f[i]>>] :
        f \in UNION {[1..k -> BOOLEAN] : k \in 0..Len(Fields)}}

TokenAlphabet == {"a", ",", " ", MissingValue}

TokenTexts == TextsUpTo(TokenAlphabet, MaxLen)

ScalarTexts ==
    TextsUpTo({"0", "1", "-"}, MaxLen)
    \cup {<<"t", "r", "u", "e">>, <<"T", "r", "u", "e">>,
          <<"T", "R", "U", "E">>, <<"f", "a", "l", "s", "e">>,
          <<"F", "a", "l", "s", "e">>, <<"t", "r", "u">>,
          <<"t", "r", "u", "e", "e">>, <<"+", "1">>, <<"+", "0">>,
          <<"g", "a", "r", "b", "a", "g", "e">>, <<"1", " ", "1">>,
          <<" ", "1", "\n">>, <<"t", "r", "u", "e", "\n">>}

\* The error osascript reports when no VM has the id a command names.
CantGetVm == "Can't get vm id"

\* Standard error of a failed run.
ErrTexts ==
    {<<>>, <<CantBeFound>>, <<NotRunning>>, <<"execution error">>,
     <<CantGetVm>>,
     <<"execution error", NotRunning>>, <<" ", CantBeFound, "\n">>}

\* The keyword options the call sites of _call_veertu_app pass.
ProjectionCallSites ==
    {[return_as_dict |-> TRUE, projection |-> P] : P \in Projections}
    \cup {[return_list_of_dicts |-> TRUE, projection |-> P] :
             P \in Projections}
    \cup {[return_as_dict |-> FALSE, return_list_of_dicts |-> TRUE,
           projection |-> P] : P \in Projections}

PlainCallSites ==
    {[scalar |-> TRUE], [number |-> TRUE], [return_formatted |-> FALSE],
     [return_formatted |-> TRUE]}

CallSites == ProjectionCallSites \cup PlainCallSites

\* The outputs tried for a given set of options.
OutTexts(kwargs) ==
    IF kwargs \in ProjectionCallSites THEN TokenTexts
    ELSE IF Get(kwargs, "return_formatted", TRUE) /\ kwargs \notin
               {[scalar |-> TRUE], [number |-> TRUE]}
    THEN TokenTexts
    ELSE ScalarTexts

\* The record of one spawned process: the command sent and what came back.
SpawnAs(app_name, cmd, proc) ==
    [app |-> app_name, cmd |-> cmd, rc |-> proc.rc, out |-> proc.out,
     err |-> proc.err]

\* A process spawned while self.app has its stored value.
Spawn(cmd, proc) == SpawnAs(app, cmd, proc)

ProcessOutcomes(texts) ==
    {[rc |-> 0, out |-> t, err |-> <<>>] : t \in texts}
    \cup {[rc |-> 1, out |-> <<>>, err |-> e] : e \in ErrTexts}

Init ==
    /\ pc = "ready"
    /\ op \in {[name |-> "_call_veertu_app", kwargs |-> k] : k \in CallSites}
              \cup {[name |-> "_split_and_strip", text |-> t] :
                       t \in TokenTexts}
    /\ spawned = <<>>
    /\ slept = 0
    /\ result = NoResult
    /\ app = "Veertu"
    /\ vms = <<>>
    /\ echoed = <<>>
    /\ exit_code = NoExitCode
    /\ bar = NoBar

\* _call_veertu_app: spawn one osascript process and decode what it gave.
CallVeertuApp ==
    /\ pc = "ready"
    /\ op.name = "_call_veertu_app"
    /\ \E proc \in ProcessOutcomes(OutTexts(op.kwargs)) :
          /\ spawned' = Append(spawned, Spawn(<<"command">>, proc))
          /\ result' = call_veertu_app(proc, op.kwargs)
    /\ pc' = "done"
    /\ UNCHANGED <<op, slept, app, vms, echoed, exit_code, bar>>

\* _split_and_strip called on a text.
SplitAndStrip ==
    /\ pc = "ready"
    /\ op.name = "_split_and_strip"
    /\ result' = Return("tokens", split_and_strip(op.text))
    /\ pc' = "done"
    /\ UNCHANGED <<op, spawned, slept, app, vms, echoed, exit_code, bar>>

Next == CallVeertuApp \/ SplitAndStrip

Spec == Init /\ [][Next]_vars

(***************************************************************************)
(* Properties of the projection decoder, checked under Spec.               *)
(***************************************************************************)
\* A finished run of _call_veertu_app that exited 0 and took the projection
\* decoder with a non-empty projection.
Decoded ==
    /\ pc = "done"
    /\ op.name = "_call_veertu_app"
    /\ spawned[1].rc = 0
    /\ wants_projection(op.kwargs)
    /\ Len(op.kwargs.projection) > 0

\* The tokens the decoder was given in the current state.
DecodedTokens == split_and_strip(strip(spawned[1].out))

DecodedMulti == Get(op.kwargs, "return_list_of_dicts", FALSE)

\* The keys of a record, in order.
KeysOf(rec) == [j \in 1..Len(rec) |-> rec[j][1]]

\* The fields of a projection whose inclusion flag is true, in order.
RECURSIVE IncludedFields(_)
IncludedFields(projection) ==
    IF Len(projection) = 0 THEN <<>>
    ELSE (IF Head(projection)[2] THEN <<Head(projection)[1]>> ELSE <<>>)
         \o IncludedFields(Tail(projection))

\* The records a decode result holds: a list's elements, or the one record
\* returned bare.
RecordsOfResult ==
    IF result.type = "list" THEN result.value ELSE <<result.value>>

\* C4: for a non-empty projection and a token sequence whose length is a
\* multiple of the projection length, the decoder returns exactly
\* len(tokens)/len(projection) records (with no record at all, the empty
\* list or the empty record), and the keys of each record are exactly the
\* projection fields whose flag is true, in projection order.
C4_DecodeCountAndKeys ==
    LET P == op.kwargs.projection
        n == Len(DecodedTokens) \div Len(P)
    IN  (Decoded /\ Len(DecodedTokens) % Len(P) = 0) =>
            /\ result.kind = "return"
            /\ result.type \in {"list", "dict"}
            /\ IF n = 0 THEN result.value = <<>>
               ELSE /\ Len(RecordsOfResult) = n
                    /\ \A k \in 1..n :
                          KeysOf(RecordsOfResult[k]) = IncludedFields(P)

\* Two records decoded from a projection that drops a field and keeps one.
C4_Witness ==
    /\ Decoded
    /\ result.type = "list"
    /\ Len(result.value) = 2
    /\ \E p, q \in 1..Len(op.kwargs.projection) :
          op.kwargs.projection[p][2] /\ ~op.kwargs.projection[q][2]

\* C5: a field whose flag is false still consumes its token slot: in the
\* k-th record (0-based) the retained field at projection position p
\* (0-based) holds tokens[k*len(projection)+p]; and the scenario of the
\* specification decodes to its two records.
C5_PositionalAlignment ==
    LET P == op.kwargs.projection
        n == Len(DecodedTokens) \div Len(P)
        abc == <<"a", "b", "c">>
        def == <<"d", "e", "f">>
        box1 == <<"b", "o", "x", "1">>
        box2 == <<"b", "o", "x", "2">>
    IN  /\ (Decoded /\ Len(DecodedTokens) % Len(P) = 0 /\ n > 0) =>
              /\ result.kind = "return"
              /\ Len(RecordsOfResult) = n
              /\ \A k \in 0..(n - 1) :
                    LET rec == RecordsOfResult[k + 1]
                    IN  \A p \in 0..(Len(P) - 1) :
                           P[p + 1][2] =>
                              \E j \in 1..Len(rec) :
                                 rec[j] = <<P[p + 1][1],
                                            DecodedTokens[k * Len(P) + p + 1]>>
        /\ decode_projection(
               <<abc, box1, <<"r", "u", "n">>, def, box2, <<"s", "t", "o", "p">>>>,
               <<<<"id", TRUE>>, <<"name", TRUE>>, <<"status", FALSE>>>>, TRUE)
           = Return("list", << <<<<"id", abc>>, <<"name", box1>>>>,
                               <<<<"id", def>>, <<"name", box2>>>> >>)

\* A second record whose retained field follows a dropped one, with tokens
\* that differ, so that a slip of one slot would show.
C5_Witness ==
    /\ Decoded
    /\ result.type = "list"
    /\ Len(result.value) >= 2
    /\ Len(op.kwargs.projection) >= 2
    /\ ~op.kwargs.projection[1][2]
    /\ op.kwargs.projection[2][2]
    /\ DecodedTokens[Len(op.kwargs.projection) + 1]
          # DecodedTokens[Len(op.kwargs.projection) + 2]

\* C6: for a non-empty projection and a token sequence whose length is not
\* a multiple of the projection length, the decoder raises
\* WrongProjectionException and returns nothing.
C6_MismatchRaises ==
    (Decoded /\ Len(DecodedTokens) % Len(op.kwargs.projection) # 0) =>
        result = Raise("WrongProjectionException")

\* More tokens than one record needs, but not enough for two.
C6_Witness ==
    /\ Decoded
    /\ Len(op.kwargs.projection) = 2
    /\ Len(DecodedTokens) = 3
    /\ result.kind = "raise"

\* C16: the shape of a decode result.  With return_list_of_dicts the result
\* is always a list, also when it holds no record or one; without it and
\* with exactly one record the result is that record, not a list; with no
\* record the result is the empty list with return_list_of_dicts and the
\* empty record without.
C16_ResultShape ==
    (Decoded /\ result.kind = "return") =>
        LET count == Len(DecodedTokens) \div Len(op.kwargs.projection)
        IN  /\ DecodedMulti =>
                  /\ result.type = "list"
                  /\ Len(result.value) = count
            /\ (~DecodedMulti /\ count = 1) =>
                  /\ result.type = "dict"
                  /\ KeysOf(result.value) = IncludedFields(op.kwargs.projection)
            /\ count = 0 =>
                  result = IF DecodedMulti THEN Return("list", <<>>)
                           ELSE Return("dict", <<>>)

\* A decode of exactly one record without return_list_of_dicts.
C16_Witness ==
    /\ Decoded
    /\ ~DecodedMulti
    /\ Len(op.kwargs.projection) = 2
    /\ Len(DecodedTokens) = 2
    /\ result.kind = "return"
    /\ result.type = "dict"
    /\ Len(result.value) = 2

\* C18: whenever the caller supplies a projection, the tokenized output
\* goes through the projection decoder and the caller receives what the
\* decoder gives (a record, a list of records, or its
\* WrongProjectionException), whatever the other options are: also for
\* the options of get_port_forwarding, return_list_of_dicts=True with
\* return_as_dict=False.
C18_ProjectionAlwaysDecoded ==
    (/\ pc = "done"
     /\ op.name = "_call_veertu_app"
     /\ spawned[1].rc = 0
     /\ "projection" \in DOMAIN op.kwargs)
        => /\ result = decode_projection(DecodedTokens, op.kwargs.projection,
                                         DecodedMulti)
           /\ result.kind = "return" => result.type \in {"dict", "list"}

(***************************************************************************)
(* Properties of the tokenizer and of scalar decoding, checked under Spec. *)
(***************************************************************************)
\* A finished call of the tokenizer.
Tokenized == pc = "done" /\ op.name = "_split_and_strip"

\* A finished run of _call_veertu_app that returned the tokenized output.
TokenizedByCall ==
    /\ pc = "done"
    /\ op.name = "_call_veertu_app"
    /\ spawned[1].rc = 0
    /\ result.type = "tokens"

OnlyWhitespace(text) == \A i \in 1..Len(text) : text[i] \in Whitespace

\* C7 as stated: tokenize yields the empty sequence for the empty input and
\* for ",", and never returns a sequence holding a single empty string.
C7_Original ==
    /\ Tokenized =>
          /\ (op.text \in {<<>>, <<",">>} => result.value = <<>>)
          /\ result.value # << <<>> >>
    /\ TokenizedByCall => result.value # << <<>> >>

\* C7 as amended: tokenize yields the empty sequence for the empty input
\* and for an input of whitespace only; "," yields two empty tokens; for no
\* input does tokenize return a sequence holding a single empty string.
C7_Amended ==
    /\ Tokenized =>
          /\ (OnlyWhitespace(op.text) => result.value = <<>>)
          /\ (op.text = <<",">> => result.value = << <<>>, <<>> >>)
          /\ result.value # << <<>> >>
    /\ TokenizedByCall => result.value # << <<>> >>

\* The tokenizer has been applied to ",".
C7_Witness ==
    /\ Tokenized
    /\ op.text = <<",">>
    /\ Len(result.value) = 2

\* A finished run of _call_veertu_app with scalar=True that exited 0.
ScalarDecoded ==
    /\ pc = "done"
    /\ op.name = "_call_veertu_app"
    /\ op.kwargs = [scalar |-> TRUE]
    /\ spawned[1].rc = 0

\* The trimmed output the scalar decoder was given.
ScalarText == strip(spawned[1].out)

ParsesAsNonzeroInt(text) == IntParses(text) /\ IntOf(text) # 0

\* C8 as stated: scalar decoding never fails and returns true exactly when
\* the text parses as a nonzero integer or is the literal "true".
C8_Original ==
    ScalarDecoded =>
        result = Return("bool", ParsesAsNonzeroInt(ScalarText)
                                    \/ ScalarText = TrueText)

\* C8 as amended: scalar decoding never fails and returns true exactly when
\* the text parses as a nonzero integer or equals "true" in any letter
\* case; "0", "false" and any unrecognized text give false.
C8_Amended ==
    ScalarDecoded =>
        result = Return("bool", ParsesAsNonzeroInt(ScalarText)
                                    \/ lower(ScalarText) = TrueText)

\* Scalar decoding of an integer zero with a sign.
C8_Witness ==
    /\ ScalarDecoded
    /\ ScalarText = <<"-", "0">>
    /\ result = Return("bool", FALSE)

(***************************************************************************)
(* Properties of the process invoker, checked under Spec.                  *)
(***************************************************************************)
\* A finished call of _call_veertu_app.
Invoked ==
    /\ pc = "done"
    /\ op.name = "_call_veertu_app"

\* The captured error text names an application that cannot be found or is
\* not running.
MatchesUnavailablePattern(err) ==
    \E i \in 1..Len(err) : err[i] \in {CantBeFound, NotRunning}

\* The errors the decoding of a well-received output can raise.
DecodingErrors == {"WrongProjectionException", "InternalAppError"}

NullText == <<"(null)">>

NaNText == <<"nan">>

DashText == <<"-">>

FloatBody(text) == Unsigned(strip(text))

DotPositions(u) == {i \in 1..Len(u) : u[i] = "."}

IsDigit(c) == c \in Digits

\* float(text) succeeds.
FloatParses(text) ==
    LET u == FloatBody(text)
    IN  \/ u = NaNText
        \/ /\ Cardinality(DotPositions(u)) <= 1
           /\ \A i \in 1..Len(u) : u[i] \in Digits \cup {"."}
           /\ \E i \in 1..Len(u) : u[i] \in Digits

\* float(text) is not-a-number.
FloatIsNaN(text) == FloatBody(text) = NaNText

FloatNum(text) == DigitsValue(SelectSeq(FloatBody(text), IsDigit))

FloatScale(text) ==
    LET u == FloatBody(text)
    IN  IF DotPositions(u) = {} THEN 0
        ELSE Len(u) - (CHOOSE i \in DotPositions(u) : TRUE)

\* float(text) < 0
FloatNegative(text) ==
    /\ ~FloatIsNaN(text)
    /\ HasSign(strip(text))
    /\ Head(strip(text)) = "-"
    /\ FloatNum(text) # 0

RECURSIVE Pow10(_)
Pow10(k) == IF k = 0 THEN 1 ELSE 10 * Pow10(k - 1)

\* float(text) >= 1.0
FloatAtLeastOne(text) ==
    /\ ~FloatIsNaN(text)
    /\ ~FloatNegative(text)
    /\ FloatNum(text) >= Pow10(FloatScale(text))

\* int(float(text) * 100) for a float that is not negative (line 492).
percent_of(text) == (FloatNum(text) * 100) \div Pow10(FloatScale(text))

\* Mutant of clamp_zero: a computed 0 is returned as it is.
clamp_zero_missing(progress_num) == progress_num

\* Line 495: a computed 0 is reported as 1.
clamp_zero(progress_num) == IF progress_num # 0 THEN progress_num ELSE 1

\* The sentinel test of lines 457 and 481.
is_invalid_reading(progress_str) ==
    progress_str = <<>> \/ progress_str = NullText \/ progress_str = DashText

\* Lines 481-495 of progress, on the text the progress query returned.
progress_of(progress_string) ==
    IF is_invalid_reading(progress_string)
    THEN Raise("ImportExportFailedException")
    ELSE IF ~FloatParses(progress_string)
    THEN Raise("ImportExportFailedException")
    ELSE IF FloatNegative(progress_string)
    THEN Raise("ImportExportFailedException")
    ELSE IF FloatIsNaN(progress_string)
    THEN Raise("ValueError")    \* int() of a not-a-number, line 492
    ELSE Return("int", clamp_zero(percent_of(progress_string)))

\* 'get progress of "{}"'.format(handle)
progress_command(handle) == <<"get progress of ", "\"">> \o handle \o <<"\"">>

\* The keyword options of the progress query (lines 456 and 480).
ProgressKwargs == [return_formatted |-> FALSE]

\* progress(handle), given the outcome of the process it spawns: an
\* exception of the query propagates.
progress(proc) ==
    LET queried == call_veertu_app(proc, ProgressKwargs)
    IN  IF queried.kind = "raise" THEN queried
        ELSE progress_of(queried.value)

\* Mutant of loop_verdict: a negative reading is not treated as an error.
loop_verdict_negative_ignored(progress_str) ==
    IF is_invalid_reading(progress_str) THEN "fail"
    ELSE IF ~FloatParses(progress_str) THEN "fail"
    ELSE IF FloatAtLeastOne(progress_str) THEN "break"
    ELSE "sleep"

\* Mutant of loop_verdict: a completed reading does not end the loop.
loop_verdict_no_break(progress_str) ==
    IF is_invalid_reading(progress_str) THEN "fail"
    ELSE IF ~FloatParses(progress_str) THEN "fail"
    ELSE IF FloatNegative(progress_str) THEN "fail"
    ELSE "sleep"

\* Lines 457-475 of progress_loop: what one iteration does with a reading.
loop_verdict(progress_str) ==
    IF is_invalid_reading(progress_str) THEN "fail"
    ELSE IF ~FloatParses(progress_str) THEN "fail"
    ELSE IF FloatAtLeastOne(progress_str) THEN "break"
    ELSE IF FloatNegative(progress_str) THEN "fail"
    ELSE "sleep"

(***************************************************************************)
(* Specification SpecProgress: one call of progress, or a run of           *)
(* progress_loop, against readings drawn from bounded sets.                *)
(***************************************************************************)
ProgressAlphabet == {"0", "1", "5", "-", "."}

ProgressTexts ==
    TextsUpTo(ProgressAlphabet, MaxLen)
    \cup {NullText, <<MissingValue>>, <<"x">>, <<" ", "0", ".", "5", "\n">>,
          NaNText, <<"-", "nan">>}

\* The readings tried in progress_loop.
LoopTexts ==
    {<<>>, NullText, DashText, <<MissingValue>>, <<"x">>,
     <<"0">>, <<"0", ".", "0">>, <<"0", ".", "5">>, <<"-", "0", ".", "0">>,
     <<"1">>, <<"1", ".", "0">>, <<"1", ".", "5">>,
     <<"-", "1", ".", "0">>, <<"-", "0", ".", "5">>, NaNText}

Handles == {<<"h", "1">>, <<"h", "2">>}

InitProgress ==
    /\ pc = "ready"
    /\ op \in {[name |-> "progress", handle |-> h] : h \in Handles}
              \cup {[name |-> "progress_loop", handle |-> h, silent |-> b] :
                       h \in Handles, b \in BOOLEAN}
    /\ spawned = <<>>
    /\ slept = 0
    /\ result = NoResult
    /\ app = "Veertu"
    /\ vms = <<>>
    /\ echoed = <<>>
    /\ exit_code = NoExitCode
    /\ bar = NoBar

\* progress(handle): one progress query.
Progress ==
    /\ pc = "ready"
    /\ op.name = "progress"
    /\ \E proc \in ProcessOutcomes(ProgressTexts) :
          /\ spawned' = Append(spawned, Spawn(progress_command(op.handle), proc))
          /\ result' = progress(proc)
    /\ pc' = "done"
    /\ UNCHANGED <<op, slept, app, vms, echoed, exit_code, bar>>

\* One iteration of the while loop of progress_loop, the process of its
\* query ending in one of outcomes: the query, the tests on the reading
\* and, when the loop goes on, the sleep.
LoopIteration(outcomes) ==
    /\ pc = "ready"
    /\ op.name = "progress_loop"
    /\ Len(spawned) < MaxPolls
    /\ \E proc \in outcomes :
          LET queried == call_veertu_app(proc, ProgressKwargs)
              verdict == IF queried.kind = "raise" THEN "raise"
                         ELSE loop_verdict(queried.value)
          IN  /\ spawned' = Append(spawned,
                                    Spawn(progress_command(op.handle), proc))
              /\ result' = CASE verdict = "raise" -> queried
                             [] verdict = "fail" ->
                                   Raise("ImportExportFailedException")
                             [] verdict = "break" -> Return("none", <<>>)
                             [] OTHER -> result
              /\ pc' = IF verdict = "sleep" THEN "ready" ELSE "done"
              /\ slept' = IF verdict = "sleep" THEN slept + 1 ELSE slept
    /\ UNCHANGED <<op, app, vms, echoed, exit_code, bar>>

ProgressLoopIteration == LoopIteration(ProcessOutcomes(LoopTexts))

NextProgress == Progress \/ ProgressLoopIteration

SpecProgress == InitProgress /\ [][NextProgress]_vars

(***************************************************************************)
(* Properties of the operation tracker, checked under SpecProgress.        *)
(***************************************************************************)
\* A finished call of progress whose query exited 0.
Polled ==
    /\ pc = "done"
    /\ op.name = "progress"
    /\ spawned[1].rc = 0

\* The text the progress query returned.
Reading(i) == strip(spawned[i].out)

\* The reading is a fraction f >= 0.
IsFraction(text) ==
    FloatParses(text) /\ ~FloatNegative(text) /\ ~FloatIsNaN(text)

IsFailedReading(text) ==
    \/ text \in {<<>>, NullText, DashText, <<MissingValue>>}
    \/ FloatParses(text) /\ FloatNegative(text)

\* C10: progress and progress_loop raise ImportExportFailedException
\* whenever a progress reading is the sentinel or a negative fraction;
\* progress_loop raises on that very reading: it is the last query issued,
\* and the loop has slept only after the readings before it.
C10_FailedReadingRaises ==
    /\ (Polled /\ IsFailedReading(Reading(1))) =>
           result = Raise("ImportExportFailedException")
    /\ op.name = "progress_loop" =>
           \A i \in 1..Len(spawned) :
              (spawned[i].rc = 0 /\ IsFailedReading(Reading(i))) =>
                  /\ i = Len(spawned)
                  /\ pc = "done"
                  /\ result = Raise("ImportExportFailedException")
                  /\ slept = i - 1

\* progress_loop has slept once and then read a negative fraction.
C10_Witness ==
    /\ op.name = "progress_loop"
    /\ Len(spawned) = 2
    /\ spawned[2].rc = 0
    /\ FloatParses(Reading(2))
    /\ FloatNegative(Reading(2))
    /\ slept = 1
    /\ result = Raise("ImportExportFailedException")

\* progress_loop has returned normally.
LoopReturned ==
    /\ op.name = "progress_loop"
    /\ pc = "done"
    /\ result = Return("none", <<>>)

\* Query i of progress_loop gave a reading f >= 1.0.
Completing(i) ==
    /\ spawned[i].rc = 0
    /\ ~is_invalid_reading(Reading(i))
    /\ FloatParses(Reading(i))
    /\ FloatAtLeastOne(Reading(i))

\* A completing reading ends the loop at once: it is the last query and the
\* loop has returned.
CompletingEndsLoop ==
    op.name = "progress_loop" =>
        \A i \in 1..Len(spawned) :
           Completing(i) => i = Len(spawned) /\ LoopReturned

RECURSIVE format_from(_, _, _)
format_from(command, args, n) ==
    IF command = <<>> THEN <<>>
    ELSE LET c == Head(command)
         IN  IF c = "{}"
             THEN args[n] \o format_from(Tail(command), args, n + 1)
             ELSE <<(IF c = "{{" THEN "{" ELSE IF c = "}}" THEN "}" ELSE c)>>
                  \o format_from(Tail(command), args, n)

format(command, args) == format_from(command, args, 1)

\* text[i..] starts with old.
StartsAt(text, old, i) ==
    /\ i + Len(old) - 1 <= Len(text)
    /\ SubSeq(text, i, i + Len(old) - 1) = old

\* text.replace(old, new, 1), for a non-empty old.
replace_first(text, old, new) ==
    LET found == {i \in 1..Len(text) : StartsAt(text, old, i)}
    IN  IF found = {} THEN text
        ELSE LET i == CHOOSE j \in found : \A k \in found : j <= k
             IN  SubSeq(text, 1, i - 1) \o new
                 \o SubSeq(text, i + Len(old), Len(text))

\* dict.get(key) on a decoded record.
dict_get(record, key) ==
    IF \E i \in 1..Len(record) : record[i][1] = key
    THEN record[CHOOSE i \in 1..Len(record) : record[i][1] = key][2]
    ELSE PyNone

\* list(): the command and the options of line 297-299.
list_command == format(<<"{{", "id, name", "}}", " of every ", "vm">>, <<>>)

list_kwargs ==
    [return_list_of_dicts |-> TRUE,
     projection |-> <<<<"id", TRUE>>, <<"name", TRUE>>>>]

\* The calls of _call_veertu_with_name_fallback made by show (lines
\* 301-305), start (lines 353-354) and remove_port_forwarding (lines
\* 640-641): the template, its arguments and the keyword options.
show_call(vm_id) ==
    [caller   |-> "show",
     command  |-> <<"get ", "{{", "id, name, status, ip", "}}", " of ", "vm",
                    " id \"", "{}", "\"">>,
     args     |-> <<vm_id>>,
     id_arg   |-> 1,
     id_value |-> vm_id,
     kwargs   |-> [return_as_dict |-> TRUE,
                   projection |-> <<<<"id", TRUE>>, <<"name", TRUE>>,
                                    <<"status", TRUE>>, <<"ip", TRUE>>>>]]

start_call(vm_id) ==
    [caller   |-> "start",
     command  |-> <<"start of ", "vm", " id \"", "{}", "\"">>,
     args     |-> <<vm_id>>,
     id_arg   |-> 1,
     id_value |-> vm_id,
     kwargs   |-> [scalar |-> TRUE]]

remove_port_forwarding_call(vm_id, rule_name) ==
    [caller   |-> "remove_port_forwarding",
     command  |-> <<"remove port forwarding \"", "{}", "\" from ", "vm",
                    " id \"", "{}", "\"">>,
     args     |-> <<rule_name, vm_id>>,
     id_arg   |-> 2,
     id_value |-> vm_id,
     kwargs   |-> [number |-> TRUE]]

\* Mutant of direct_call_handler: every manager error falls through.
direct_call_handler_broad(exc) ==
    IF Catches("VeertuManagerException", exc) THEN "pass" ELSE "raise"

\* Lines 270-279: what the except clauses do with an exception of the direct
\* call: "pass" falls through to the name lookup, "raise" lets it out (the
\* re-raise of line 279, or no clause catching it).
direct_call_handler(exc) ==
    IF Catches("CalledProcessError", exc) THEN "pass"
    ELSE IF Catches("VMNotFoundException", exc) THEN "pass"
    ELSE IF Catches("VeertuAppNotFoundException", exc) THEN "raise"
    ELSE "raise"

\* Mutant of fallback_handler: an unavailable application is re-raised as
\* it is by the clauses of the direct call.
fallback_handler_reraising(exc) ==
    IF Catches("VeertuAppNotFoundException", exc) THEN Raise(exc)
    ELSE IF Catches("VeertuManagerException", exc)
    THEN Raise("VMNotFoundException")
    ELSE Raise(exc)

\* Lines 290-291: an exception of the listing or of the retry.
fallback_handler(exc) ==
    IF Catches("VeertuManagerException", exc)
    THEN Raise("VMNotFoundException")
    ELSE Raise(exc)

\* Mutant of first_named: the last vm of that name is taken.
first_named_last(vms_list, id_value) ==
    LET named == {i \in 1..Len(vms_list) :
                     dict_get(vms_list[i], "name") = id_value}
    IN  IF named = {} THEN 0
        ELSE CHOOSE i \in named : \A j \in named : j <= i

\* Lines 284-286: the position in vms_list of the first vm whose name is
\* str(id_value), 0 when there is none.
first_named(vms_list, id_value) ==
    LET named == {i \in 1..Len(vms_list) :
                     dict_get(vms_list[i], "name") = id_value}
    IN  IF named = {} THEN 0
        ELSE CHOOSE i \in named : \A j \in named : i <= j

\* Line 289: the command of the retry.
new_command_formatted(command_formatted, id_value, vm_id_found) ==
    replace_first(command_formatted, id_value, vm_id_found)

(***************************************************************************)
(* Specification SpecFallback: one call of                                 *)
(* _call_veertu_with_name_fallback by show, start or                       *)
(* remove_port_forwarding, against an application holding the VMs vms.     *)
(***************************************************************************)
MaxVms == 2

VmIds == {<<"abc">>, <<"def">>}

VmNames == {<<"box1">>, <<"vm">>}

RuleNames == {<<"web">>, <<"box1">>}

\* The VM tables of the application: <<id, name>> pairs with distinct ids.
VmTables ==
    {t \in UNION {[1..k -> VmIds \X VmNames] : k \in 0..MaxVms} :
        \A i, j \in 1..Len(t) : t[i][1] = t[j][1] => i = j}

FallbackCalls ==
    {show_call(v) : v \in VmIds \cup VmNames}
    \cup {start_call(v) : v \in VmIds \cup VmNames}
    \cup {remove_port_forwarding_call(v, r) :
             v \in VmIds \cup VmNames, r \in RuleNames}

\* What the application prints for a command that starts an export or an
\* import: the handle of the operation, or that none was started.
HandleTexts == {<<"h", "1">>, <<"0">>, DashText, <<>>, <<" ", "h", "1", "\n">>}

\* The call with its identifier argument set to vm_id.
Addressing(call, vm_id) ==
    format(call.command,
           [i \in 1..Len(call.args) |->
               IF i = call.id_arg THEN vm_id ELSE call.args[i]])

\* The text the application prints for cmd when it addresses the VM at
\* position k of the table.
AnswerTexts(call, k) ==
    IF call.caller = "show"
    THEN {vms[k][1] \o <<",", " ">> \o vms[k][2] \o <<",", " ", "running", ",",
            " ", MissingValue>>,
          vms[k][1] \o <<",", " ">> \o vms[k][2]}
    ELSE IF call.caller \in {"start", "delete", "set_headless",
                              "add_network_card", "delete_network_card"}
    THEN {<<"1">>, <<"0">>}
    ELSE IF call.caller = "export_vm" THEN HandleTexts
    ELSE {<<"0">>, <<"x">>}

UnavailableOutcomes ==
    {[rc |-> 1, out |-> <<>>, err |-> e] :
        e \in {<<CantBeFound>>, <<"execution error", NotRunning>>}}

FailedOutcomes ==
    {[rc |-> 1, out |-> <<>>, err |-> e] : e \in {<<>>, <<"execution error">>}}

LookupMiss == [rc |-> 1, out |-> <<>>, err |-> <<"execution error", CantGetVm>>]

\* What a process sent cmd for the call can come back with: an answer when
\* cmd addresses a VM of the table, a lookup miss when it does not, and at
\* any time an unavailable application or another failure.
CommandOutcomes(call, cmd) ==
    LET addressed == {k \in 1..Len(vms) : cmd = Addressing(call, vms[k][1])}
    IN  (IF addressed = {} THEN {LookupMiss}
         ELSE {[rc |-> 0, out |-> t, err |-> <<>>] :
                  t \in UNION {AnswerTexts(call, k) : k \in addressed}})
        \cup UnavailableOutcomes \cup FailedOutcomes

RECURSIVE ListingText(_)
ListingText(table) ==
    IF table = <<>> THEN <<>>
    ELSE table[1][1] \o <<",", " ">> \o table[1][2]
         \o (IF Len(table) > 1 THEN <<",", " ">> ELSE <<>>)
         \o ListingText(Tail(table))

ListingOutcomes ==
    {[rc |-> 0, out |-> ListingText(vms), err |-> <<>>]}
    \cup UnavailableOutcomes \cup FailedOutcomes

InitFallback ==
    /\ pc = "ready"
    /\ op \in {[name |-> "_call_veertu_with_name_fallback", call |-> c] :
                  c \in FallbackCalls}
    /\ spawned = <<>>
    /\ slept = 0
    /\ result = NoResult
    /\ app = "Veertu"
    /\ vms \in VmTables
    /\ echoed = <<>>
    /\ exit_code = NoExitCode
    /\ bar = NoBar

\* Lines 287-290: the runs of the retry: the processes spawned from the
\* direct call on, and what the call returns or raises.
retry_runs(call, s1, s2, retry_command) ==
    {[spawned |-> <<s1, s2, Spawn(retry_command, p3)>>,
      result  |-> LET retry == call_veertu_app(p3, call.kwargs)
                  IN  IF retry.kind = "raise"
                      THEN fallback_handler(retry.type)
                      ELSE retry] :
        p3 \in CommandOutcomes(call, retry_command)}

\* Lines 281-294: the runs of the name lookup after the direct call s1.
fallback_runs(call, command_formatted, s1) ==
    UNION {
        LET vms_list == call_veertu_app(p2, list_kwargs)
            s2 == Spawn(list_command, p2)
            k == first_named(vms_list.value, call.id_value)
        IN  IF vms_list.kind = "raise"
            THEN {[spawned |-> <<s1, s2>>,
                   result |-> fallback_handler(vms_list.type)]}
            ELSE IF k = 0
            THEN {[spawned |-> <<s1, s2>>,
                   result |-> Raise("VMNotFoundException")]}
            ELSE retry_runs(call, s1, s2,
                     new_command_formatted(command_formatted, call.id_value,
                         dict_get(vms_list.value[k], "id"))) :
        p2 \in ListingOutcomes}

\* _call_veertu_with_name_fallback (lines 259-294): every run of the call,
\* as the processes it spawns and what it returns or raises.
call_veertu_with_name_fallback(call) ==
    LET command_formatted == format(call.command, call.args)
    IN  UNION {
            LET direct == call_veertu_app(p1, call.kwargs)
                s1 == Spawn(command_formatted, p1)
            IN  IF direct.kind = "raise"
                   /\ direct_call_handler(direct.type) = "pass"
                THEN fallback_runs(call, command_formatted, s1)
                ELSE {[spawned |-> <<s1>>, result |-> direct]} :
            p1 \in CommandOutcomes(call, command_formatted)}

\* _call_veertu_with_name_fallback, from its call to its return or raise.
CallVeertuWithNameFallback ==
    /\ pc = "ready"
    /\ op.name = "_call_veertu_with_name_fallback"
    /\ \E run \in call_veertu_with_name_fallback(op.call) :
          /\ spawned' = spawned \o run.spawned
          /\ result' = run.result
    /\ pc' = "done"
    /\ UNCHANGED <<op, slept, app, vms, echoed, exit_code, bar>>

NextFallback == CallVeertuWithNameFallback

SpecFallback == InitFallback /\ [][NextFallback]_vars

\* The direct call was a lookup miss: the application is there and knows no
\* VM of that id.
DirectLookupMiss ==
    /\ pc = "done"
    /\ Len(spawned) >= 1
    /\ spawned[1].rc # 0
    /\ Contains(spawned[1].err, CantGetVm)

\* The VMs of the application whose display name is the primary identifier.
NamedLikeIdentifier == {k \in 1..Len(vms) : vms[k][2] = op.call.id_value}

\* Process i of the call found the application unavailable.
Unavailable(i) ==
    /\ spawned[i].rc # 0
    /\ classify_failure(spawned[i].err) = Raise("VeertuAppNotFoundException")

\* C1: whenever the direct call is a lookup miss and the listing holds a VM
\* whose display name is the primary identifier, the call issues a listing
\* and exactly one retry, the retry uses the canonical id of that VM, and
\* the value of the retry is returned.
C1_FallbackSucceedsOnce ==
    (DirectLookupMiss /\ NamedLikeIdentifier # {})
        => /\ Len(spawned) = 3
           /\ \E k \in NamedLikeIdentifier :
                 spawned[3].cmd = Addressing(op.call, vms[k][1])
           /\ result.kind = "return"
           /\ result = call_veertu_app(spawned[3], op.call.kwargs)

\* C2: whenever the direct call is a lookup miss and no VM has the primary
\* identifier as its display name, the call raises VMNotFoundException and
\* issues no retry (at most the direct call and the listing are spawned).
C2_NoMatchRaisesNotFound ==
    (DirectLookupMiss /\ NamedLikeIdentifier = {})
        => /\ result = Raise("VMNotFoundException")
           /\ Len(spawned) <= 2

AppOptions == <<"Veertu", "Veertu 2016 Business", "Veertu Desktop">>

\* self.app before the locator has run (line 70).
DefaultApp == "Veertu"

\* version(): the command and the options of lines 724-727.
version_command == format(<<"version">>, <<>>)

version_kwargs == [return_formatted |-> TRUE]

\* version(), given the outcome of the process it spawns (lines 723-740).
version(proc) ==
    LET response_list == call_veertu_app(proc, version_kwargs)
    IN  IF response_list.kind = "raise"
        THEN IF Catches("VeertuAppNotFoundException", response_list.type)
             THEN response_list
             ELSE IF Catches("VeertuManagerException", response_list.type)
             THEN Raise("VeertuManagerException")
             ELSE response_list
        ELSE IF response_list.value # <<>> /\ response_list.value[1] # <<>>
        THEN Return("bool", TRUE)
        ELSE Return("bool", FALSE)

\* Mutant of verify_app_name: a probe that fails in any way does not verify.
verify_app_name_strict(original_app, app_name, proc) ==
    [verified |-> version(proc).kind = "return", app |-> original_app,
     raised |-> FALSE]

\* _verify_app_name(app_name), given the outcome of the probe's process:
\* whether the name is verified, self.app when it is left, and whether it
\* is left by an exception (lines 109-123).  Line 110 stores app_name;
\* lines 113, 116 and 119 store the original name back; an exception that
\* neither except clause catches passes through with app_name stored.
verify_app_name(original_app, app_name, proc) ==
    LET probed == version(proc)
    IN  IF probed.kind = "return"
        THEN [verified |-> TRUE, app |-> original_app, raised |-> FALSE]
        ELSE IF Catches("VeertuAppNotFoundException", probed.type)
        THEN [verified |-> FALSE, app |-> original_app, raised |-> FALSE]
        ELSE IF Catches("VeertuManagerException", probed.type)
        THEN [verified |-> TRUE, app |-> original_app, raised |-> FALSE]
        ELSE [verified |-> FALSE, app |-> app_name, raised |-> TRUE]

\* The call of the locator __init__ makes with the given fallback name,
\* after `first - 1` processes have been spawned.
find_working_app_name_from_options(fallback_app_name, first) ==
    [name |-> "_find_working_app_name_from_options",
     options |-> AppOptions,
     fallback_app_name |-> fallback_app_name,
     tried |-> 0,
     first |-> first]

(***************************************************************************)
(* Specification SpecManager: the construction of a VeertuManager and,     *)
(* after it, any sequence of manager operations.                           *)
(***************************************************************************)
\* The APP_PATH values of ~/.veertu_config.
ConfigAppPaths == {"Veertu Beta", "Veertu Desktop"}

VersionTexts == {<<"2", ".", "0">>, <<>>}

VersionOutcomes ==
    {[rc |-> 0, out |-> t, err |-> <<>>] : t \in VersionTexts}
    \cup UnavailableOutcomes \cup FailedOutcomes

\* What the process of a probe of the constructor can come back with.
ProbeOutcomes == VersionOutcomes \cup {NotStarted}

\* What a caller asks of the constructed manager.
ManagerOperations ==
    {[name |-> "version"], [name |-> "list"]}
    \cup {[name |-> "_call_veertu_with_name_fallback", call |-> c] :
             c \in {show_call(<<"abc">>), start_call(<<"box1">>),
                    remove_port_forwarding_call(<<"box1">>, <<"web">>)}}
    \cup {[name |-> "progress", handle |-> <<"h", "1">>],
          [name |-> "progress_loop", handle |-> <<"h", "1">>,
           silent |-> TRUE]}

InitManager ==
    /\ pc = "init"
    /\ op \in {[name |-> "__init__", config_app_path |-> p] :
                  p \in ConfigAppPaths}
              \cup {find_working_app_name_from_options(DefaultApp, 1)}
    /\ spawned = <<>>
    /\ slept = 0
    /\ result = NoResult
    /\ app = DefaultApp
    /\ vms \in {<<>>, <<<<<<"abc">>, <<"box1">>>>>>}
    /\ echoed = <<>>
    /\ exit_code = NoExitCode
    /\ bar = NoBar

\* Lines 80-87 of __init__: the name of the configuration file is probed and
\* kept when it is verified; the locator is called when it is not.
VerifyConfiguredAppName ==
    /\ pc = "init"
    /\ op.name = "__init__"
    /\ \E proc \in ProbeOutcomes :
          LET probe == verify_app_name(app, op.config_app_path, proc)
          IN  /\ spawned' = Append(spawned,
                     SpawnAs(op.config_app_path, version_command, proc))
              /\ IF probe.raised
                 THEN /\ app' = probe.app
                      /\ pc' = "failed"
                      /\ op' = op
                      /\ result' = version(proc)
                 ELSE IF probe.verified
                 THEN /\ app' = op.config_app_path
                      /\ pc' = "constructed"
                      /\ op' = op
                      /\ result' = result
                 ELSE /\ app' = probe.app
                      /\ pc' = "init"
                      /\ op' = find_working_app_name_from_options(
                                   op.config_app_path, Len(spawned) + 2)
                      /\ result' = result
    /\ UNCHANGED <<slept, vms, echoed, exit_code, bar>>

\* One probe of _find_working_app_name_from_options: an iteration of the
\* loop of lines 131-133 or, after the last candidate, the probe of the
\* fallback name (lines 136-141).  When the locator returns, __init__ stores
\* the name (line 105).
FindWorkingAppName ==
    /\ pc = "init"
    /\ op.name = "_find_working_app_name_from_options"
    /\ LET i == op.tried + 1
           app_option == IF i <= Len(op.options) THEN op.options[i]
                         ELSE op.fallback_app_name
       IN  \E proc \in ProbeOutcomes :
             LET probe == verify_app_name(app, app_option, proc)
             IN  /\ spawned' = Append(spawned,
                        SpawnAs(app_option, version_command, proc))
                 /\ op' = [op EXCEPT !.tried = i]
                 /\ IF probe.raised
                    THEN /\ result' = version(proc)
                         /\ app' = probe.app
                         /\ pc' = "failed"
                    ELSE IF probe.verified \/ i > Len(op.options)
                    THEN /\ result' = Return("str", app_option)
                         /\ app' = app_option
                         /\ pc' = "constructed"
                    ELSE /\ result' = result
                         /\ app' = probe.app
                         /\ pc' = "init"
    /\ UNCHANGED <<slept, vms, echoed, exit_code, bar>>

\* A caller invokes an operation of the constructed manager.
Dispatch ==
    /\ pc \in {"constructed", "done"}
    /\ op' \in ManagerOperations
    /\ pc' = "ready"
    /\ spawned' = <<>>
    /\ slept' = 0
    /\ result' = NoResult
    /\ UNCHANGED <<app, vms, echoed, exit_code, bar>>

\* Mutant of Version: the operation leaves the default name in self.app.
VersionStoresDefault ==
    /\ pc = "ready"
    /\ op.name = "version"
    /\ \E proc \in VersionOutcomes :
          /\ spawned' = Append(spawned, Spawn(version_command, proc))
          /\ result' = version(proc)
    /\ pc' = "done"
    /\ app' = DefaultApp
    /\ UNCHANGED <<op, slept, vms, echoed, exit_code, bar>>

\* version()
Version ==
    /\ pc = "ready"
    /\ op.name = "version"
    /\ \E proc \in VersionOutcomes :
          /\ spawned' = Append(spawned, Spawn(version_command, proc))
          /\ result' = version(proc)
    /\ pc' = "done"
    /\ UNCHANGED <<op, slept, app, vms, echoed, exit_code, bar>>

\* list()
List ==
    /\ pc = "ready"
    /\ op.name = "list"
    /\ \E proc \in ListingOutcomes :
          /\ spawned' = Append(spawned, Spawn(list_command, proc))
          /\ result' = call_veertu_app(proc, list_kwargs)
    /\ pc' = "done"
    /\ UNCHANGED <<op, slept, app, vms, echoed, exit_code, bar>>

NextManager ==
    \/ VerifyConfiguredAppName
    \/ FindWorkingAppName
    \/ Dispatch
    \/ Version
    \/ List
    \/ CallVeertuWithNameFallback
    \/ Progress
    \/ ProgressLoopIteration

SpecManager == InitManager /\ [][NextManager]_vars

(***************************************************************************)
(* Properties of the application locator, checked under SpecManager.       *)
(***************************************************************************)
\* _find_working_app_name_from_options has returned and __init__ has stored
\* the name.
Located ==
    /\ pc = "constructed"
    /\ op.name = "_find_working_app_name_from_options"

\* The probes of the locator, in the order they were made.
LocatorProbes == SubSeq(spawned, op.first, Len(spawned))

\* The probe found the application unavailable.
ProbeUnavailable(probe) ==
    /\ probe.rc # 0
    /\ MatchesUnavailablePattern(probe.err)

\* C13: the locator probes the candidates in list order and returns the
\* first candidate whose probe completes without
\* VeertuAppNotFoundException, probing no later candidate; when the probe
\* of every candidate fails with VeertuAppNotFoundException it returns the
\* fallback name.
C13_FirstWorkingCandidate ==
    Located =>
        LET probes == LocatorProbes
            n == Len(probes)
            options == op.options
        IN  /\ n >= 1
            /\ \A i \in 1..n :
                  /\ i <= Len(options) => probes[i].app = options[i]
                  /\ probes[i].cmd = version_command
            /\ \A i \in 1..(n - 1) : ProbeUnavailable(probes[i])
            /\ IF n <= Len(options)
               THEN /\ ~ProbeUnavailable(probes[n])
                    /\ result = Return("str", options[n])
                    /\ app = options[n]
               ELSE /\ n = Len(options) + 1
                    /\ result = Return("str", op.fallback_app_name)
                    /\ app = op.fallback_app_name

\* The first candidate was unavailable and the probe of the second failed
\* for another reason: the second is returned and the third is not probed.
C13_Witness ==
    /\ Located
    /\ Len(LocatorProbes) = 2
    /\ ProbeUnavailable(LocatorProbes[1])
    /\ LocatorProbes[2].rc # 0
    /\ ~ProbeUnavailable(LocatorProbes[2])
    /\ result = Return("str", AppOptions[2])

\* C14: once the construction of the manager is complete, no operation
\* changes self.app.
C14_AppNameFrozen == [][pc # "init" => app' = app]_vars

\* An operation has run against a manager whose name is not the default.
C14_Witness ==
    /\ pc = "done"
    /\ op.name = "version"
    /\ app = "Veertu Beta"
    /\ Len(spawned) = 1
    /\ spawned[1].app = "Veertu Beta"

\* Process j sends again, to the same application, the command of process i
\* that failed.
Reattempts(i, j) ==
    /\ i < j
    /\ spawned[i].rc # 0
    /\ spawned[j].app = spawned[i].app
    /\ spawned[j].cmd = spawned[i].cmd

\* Process j is the retry of the name fallback for the direct call i.
IsFallbackRetry(i, j) ==
    /\ op.name = "_call_veertu_with_name_fallback"
    /\ i = 1
    /\ j = 3

\* C15: no automatic retries.  An operation that is one call of
\* _call_veertu_app spawns exactly one process; in no operation is a failed
\* command sent again, except by the one retry of the name fallback; and
\* one call of _call_veertu_with_name_fallback spawns at most three
\* processes.
C15_NoAutomaticRetries ==
    /\ (pc = "done" /\ op.name \in {"version", "list", "progress"})
           => Len(spawned) = 1
    /\ op.name = "_call_veertu_with_name_fallback" => Len(spawned) <= 3
    /\ \A i, j \in 1..Len(spawned) :
          Reattempts(i, j) => IsFallbackRetry(i, j)

(***************************************************************************)
(* Command-line interface: cli_entry_point, the group callback main and    *)
(* the subcommand list.  An entry of echoed is one call of a formatter     *)
(* method: the formatter in use, the method and the message it was given.  *)
(* click is modelled by what main(standalone_mode=False) does (the mode    *)
(* line 614 asks for): ctx.exit(code) raises click's Exit, which ends the  *)
(* invocation without running the subcommand, and main returns the code    *)
(* to its caller instead of calling sys.exit.                              *)
(***************************************************************************)
AppNotFoundMessage ==
    "Veertu app not found. Please ensure Veertu Desktop is installed and configured."

InitErrorMessage == "Veertu manager error on init"

\* ctx.exit(code)
ClickExit(code) == [kind |-> "raise", type |-> "Exit", value |-> code]

\* One call of cli_fmt.echo_status_failure(message).
echo_status_failure(formatter, message) ==
    [formatter |-> formatter, method |-> "echo_status_failure",
     message |-> message]

\* One call of cli_fmt.format_list_output(vms_list).
format_list_output(formatter, vms_list) ==
    [formatter |-> formatter, method |-> "format_list_output",
     message |-> vms_list]

\* Lines 36-45 of main: what the startup check does with the outcome of
\* veertu_mngr.version(): the formatter calls it makes and how it goes on.
startup_check(checked) ==
    IF checked.kind = "raise"
       /\ Catches("VeertuAppNotFoundException", checked.type)
    THEN [echo |-> <<echo_status_failure("CliFormatter", AppNotFoundMessage)>>,
          outcome |-> ClickExit(1)]
    ELSE IF checked.kind = "raise"
            /\ Catches("VeertuManagerException", checked.type)
    THEN [echo |-> <<echo_status_failure("CliFormatter", InitErrorMessage)>>,
          outcome |-> ClickExit(1)]
    ELSE IF checked.kind = "raise"
    THEN [echo |-> <<>>, outcome |-> checked]
    ELSE [echo |-> <<>>, outcome |-> Return("none", <<>>)]

\* Lines 48-52 of main: the formatter the subcommand uses.
formatter_of(machine_readable) ==
    IF machine_readable THEN "JsonFormatter" ELSE "CliFormatter"

\* main(standalone_mode=False) (line 615), given how the invocation under
\* it ended: an Exit becomes the returned exit code.
click_main(outcome) ==
    IF outcome.kind = "raise" /\ outcome.type = "Exit"
    THEN Return("int", outcome.value)
    ELSE outcome

\* Lines 613-628: the exit status of the process when cli_entry_point is
\* done with what main gave.  The value main returns is dropped and every
\* Exception is caught, so cli_entry_point returns None.
cli_entry_point(outcome) ==
    IF outcome.kind = "raise" /\ outcome.type = "SystemExit"
    THEN outcome.value
    ELSE 0

(***************************************************************************)
(* export_vm and import_vm of the manager, up to the progress loop.        *)
(***************************************************************************)
\* os.path.split(path): the directory and the file name.
os_path_split(path) ==
    LET slashes == {i \in 1..Len(path) : path[i] = "/"}
        last == IF slashes = {} THEN 0
                ELSE CHOOSE i \in slashes : \A j \in slashes : j <= i
        head == SubSeq(path, 1, last)
        kept == {i \in 1..Len(head) : head[i] # "/"}
        cut  == IF kept = {} THEN Len(head)
                ELSE CHOOSE i \in kept : \A j \in kept : j <= i
    IN  <<SubSeq(head, 1, cut), SubSeq(path, last + 1, Len(path))>>

\* os.path.join(d, f) for a relative f.
os_path_join(d, f) ==
    IF d = <<>> \/ d[Len(d)] = "/" THEN d \o f ELSE d \o <<"/">> \o f

\* name.split('.').pop(0)
before_first_dot(name) == split(name, ".")[1]

\* Lines 385-392 of export_vm: the file the export is written to.
export_output_file(output_file, fmt) ==
    LET d == os_path_split(output_file)[1]
        f == os_path_split(output_file)[2]
    IN  os_path_join(d, IF \E i \in 1..Len(f) : f[i] = "."
                        THEN f ELSE f \o <<".">> \o fmt)

\* Lines 395-397 of export_vm: the call that starts the export.
export_call(vm_id, output_file, fmt) ==
    [caller   |-> "export_vm",
     command  |-> <<"export ", "vm", " id \"", "{}", "\" to POSIX file \"",
                    "{}", "\" format \"", "{}", "\"">>,
     args     |-> <<vm_id, export_output_file(output_file, fmt), fmt>>,
     id_arg   |-> 1,
     id_value |-> vm_id,
     kwargs   |-> [return_formatted |-> FALSE]]

\* Lines 425-438 of import_vm: the command that starts the import.
import_command(file_path, name, os_family, os_type) ==
    LET given == IF name = PyNone \/ name = <<>>
                 THEN before_first_dot(os_path_split(file_path)[2])
                 ELSE name
    IN  format(<<"import ", "vm", " POSIX file \"", "{}",
                 "\" with name \"", "{}", "\"">>, <<file_path, given>>)
        \o (IF os_type = PyNone \/ os_type = <<>> THEN <<>>
            ELSE format(<<" ", "os \"", "{}", "\"">>, <<os_type>>))
        \o (IF os_family = PyNone \/ os_family = <<>> THEN <<>>
            ELSE format(<<" ", "os family \"", "{}", "\"">>, <<os_family>>))

ImportKwargs == [return_formatted |-> FALSE]

\* Mutant of is_invalid_handle: only the empty handle is invalid.
is_invalid_handle_empty_only(handle) == handle = <<>>

\* The handle test of lines 397 and 445.
is_invalid_handle(handle) ==
    handle = <<>> \/ handle = <<"0">> \/ handle = DashText

\* Lines 396-402 of export_vm, on what the starting call gave: False for
\* an invalid handle, else the handle the progress is followed with.
export_vm_started(started) ==
    IF started.kind = "raise" THEN started
    ELSE IF is_invalid_handle(started.value) THEN Return("bool", FALSE)
    ELSE started

\* Lines 440-443 of import_vm, on what the starting call gave.
import_vm_started(started) ==
    IF started.kind = "raise" THEN started
    ELSE IF is_invalid_handle(started.value)
    THEN Raise("ImportExportFailedException")
    ELSE started

(***************************************************************************)
(* The subcommands export and import of the command-line interface.        *)
(***************************************************************************)
\* One call of cli_fmt.echo_status_ok(message).
echo_status_ok(formatter, message) ==
    [formatter |-> formatter, method |-> "echo_status_ok",
     message |-> message]

\* One call of cli_fmt.format_vm_not_exist().
format_vm_not_exist(formatter) ==
    [formatter |-> formatter, method |-> "format_vm_not_exist",
     message |-> "vm does not exist"]

\* One call of click.echo(message), to standard error when err.
click_echo(message, err) ==
    [formatter |-> "click", method |-> IF err THEN "echo_err" ELSE "echo",
     message |-> message]

ExportCompleted == "Export completed."

ImportCompleted == "Import process completed."

\* Lines 226-235: what the except clauses of export echo for exception exc.
\* A message built from the exception is given by its fixed text.
export_handlers(formatter, exc) ==
    IF Catches("VMNotFoundException", exc)
    THEN format_vm_not_exist(formatter)
    ELSE IF Catches("ImportExportFailedException", exc)
    THEN echo_status_failure(formatter, "Export failed: ")
    ELSE IF exc = "Abort"
    THEN click_echo("Export aborted by user.", FALSE)
    ELSE IF Catches("VeertuManagerException", exc)
    THEN echo_status_failure(formatter, exc)
    ELSE echo_status_failure(formatter,
             "An unexpected error occurred during export: ")

\* Lines 321-328: what the except clauses of import_vm echo.
import_handlers(formatter, exc) ==
    IF Catches("ImportExportFailedException", exc)
    THEN echo_status_failure(formatter, "Veertu failed to import. Error: ")
    ELSE IF Catches("VeertuManagerException", exc)
    THEN echo_status_failure(formatter, exc)
    ELSE echo_status_failure(formatter,
             "An unexpected error occurred during import: ")

command_handlers(command, formatter, exc) ==
    IF command = "export" THEN export_handlers(formatter, exc)
    ELSE import_handlers(formatter, exc)

\* Lines 212-223 of export: what is echoed once export_vm has returned
\* export_result without a progress bar to show.
export_returned(formatter, machine_readable, silent, export_result) ==
    IF ~(machine_readable \/ silent)
    THEN IF export_result.type = "bool" /\ export_result.value = FALSE
         THEN <<echo_status_failure(formatter,
                  "Could not export vm. Export process did not start.")>>
         ELSE <<>>
    ELSE IF machine_readable /\ export_result.type = "bool"
            /\ export_result.value = FALSE
    THEN <<echo_status_failure(formatter,
             "Export failed (machine-readable mode).")>>
    ELSE <<>>

\* Lines 315-319 of import_vm: what is echoed once the silent import_vm
\* has returned import_result.
import_returned(formatter, import_result) ==
    IF import_result.type = "bool" /\ import_result.value = FALSE
    THEN <<echo_status_failure(formatter, "Import process reported failure.")>>
    ELSE <<echo_status_ok(formatter, "")>>

\* Line 214 and line 311: the length of the progress bar.
bar_length(command, export_format) ==
    IF command = "export" /\ export_format # <<"vmz">> THEN 200 ELSE 100

\* Lines 216 and 312: the status echoed after the progress bar.
completed(command, formatter) ==
    echo_status_ok(formatter,
        IF command = "export" THEN ExportCompleted ELSE ImportCompleted)

\* Lines 263-268: what _do_import_export_progress_bar echoes for an
\* exception it catches.
bar_handlers(exc) ==
    IF Catches("ImportExportFailedException", exc)
    THEN click_echo("Error during progress update: ", TRUE)
    ELSE click_echo("Manager error during progress update: ", TRUE)

\* Lines 249-259: the bar after one reading of the progress.
bar_update(b, current_progress_val) ==
    LET step == current_progress_val - b.previous_progress
        update_val == IF step > 0 THEN step ELSE 0
    IN  [b EXCEPT !.progress = current_progress_val,
                  !.pos = IF b.pos + update_val > b.length THEN b.length
                          ELSE b.pos + update_val,
                  !.previous_progress = current_progress_val]

\* The outcomes of one pass of the while loop of lines 245-262 on what
\* progress gave: "caught" when the helper catches the exception and
\* returns, "raise" when the exception leaves the helper, "break" when the
\* loop ends, "loop" when it goes on.
bar_verdict(b, polled) ==
    IF polled.kind = "raise"
    THEN IF Catches("VeertuManagerException", polled.type)
         THEN "caught" ELSE "raise"
    ELSE IF polled.value >= b.length THEN "break" ELSE "loop"

(***************************************************************************)
(* Specification SpecCli: one run of the command-line interface with the   *)
(* subcommand list, export or import, by a constructed manager.            *)
(***************************************************************************)
CliCommands == {"list", "export", "import"}

ExportFormats == {<<"vmz">>, <<"box">>}

OutputFiles == {<<>>, <<"out">>, <<"d", "/", "out", ".", "vmz">>}

InputFiles == {<<"in", ".", "vmz">>, <<"d", "/", "in">>}

\* The readings tried while the interface or the manager follows an
\* export or an import.
BarTexts ==
    {<<>>, NullText, <<"0">>, <<"0", ".", "5">>, <<"1">>,
     <<"2", ".", "0">>, <<"-", "1">>, NaNText}

CliInvocations ==
    {[name |-> "cli_entry_point", command |-> "list", machine_readable |-> m] :
        m \in BOOLEAN}
    \cup {[name |-> "cli_entry_point", command |-> "export",
           machine_readable |-> m, vm_id |-> v, output_file |-> o,
           export_format |-> f, silent |-> s, overwrite |-> w] :
             m \in BOOLEAN, v \in {<<"abc">>, <<"box1">>}, o \in OutputFiles,
             f \in ExportFormats, s \in BOOLEAN,
             w \in {"absent", "confirmed", "aborted"}}
    \cup {[name |-> "cli_entry_point", command |-> "import",
           machine_readable |-> m, input_file |-> i, vm_name |-> n,
           os_family |-> y, os_type |-> t, get_name_suggestion |-> g] :
             m \in BOOLEAN, i \in InputFiles, n \in {PyNone, <<"n">>},
             y \in {PyNone, <<"f">>}, t \in {PyNone, <<"t">>},
             g \in BOOLEAN}

InitCli ==
    /\ pc = "main"
    /\ op \in CliInvocations
    /\ spawned = <<>>
    /\ slept = 0
    /\ result = NoResult
    /\ app \in {DefaultApp, "Veertu Desktop"}
    /\ vms \in {<<>>, <<<<<<"abc">>, <<"box1">>>>>>}
    /\ echoed = <<>>
    /\ exit_code = NoExitCode
    /\ bar = NoBar

\* The subcommand returns after echoing lines: main returns to
\* cli_entry_point, and the process ends.
CommandReturns(lines) ==
    /\ echoed' = echoed \o lines
    /\ result' = click_main(Return("none", <<>>))
    /\ exit_code' = cli_entry_point(click_main(Return("none", <<>>)))
    /\ pc' = "exited"

\* export_vm or import_vm has returned the handle of a started operation:
\* the interface opens its progress bar, or the manager runs its
\* progress_loop.
FollowProgress(handle, interactive) ==
    /\ bar' = [NoBar EXCEPT !.length =
                  IF interactive
                  THEN bar_length(op.command,
                          IF op.command = "export" THEN op.export_format
                          ELSE <<>>)
                  ELSE 0]
    /\ result' = handle
    /\ pc' = IF interactive THEN "progress_bar" ELSE "progress_loop"
    /\ UNCHANGED <<echoed, exit_code>>

\* The group callback main: the startup version check.  When it exits, the
\* invocation is over and cli_entry_point returns.
Main ==
    /\ pc = "main"
    /\ \E proc \in VersionOutcomes :
          LET check == startup_check(version(proc))
          IN  /\ spawned' = Append(spawned, Spawn(version_command, proc))
              /\ echoed' = echoed \o check.echo
              /\ IF check.outcome.kind = "raise"
                 THEN /\ result' = click_main(check.outcome)
                      /\ exit_code' = cli_entry_point(click_main(check.outcome))
                      /\ pc' = "exited"
                 ELSE /\ result' = result
                      /\ exit_code' = exit_code
                      /\ pc' = "subcommand"
    /\ UNCHANGED <<op, slept, app, vms, bar>>

\* The subcommand list (lines 55-61), after which cli_entry_point returns.
ListVms ==
    /\ pc = "subcommand"
    /\ op.command = "list"
    /\ \E proc \in ListingOutcomes :
          LET vms_list == call_veertu_app(proc, list_kwargs)
              cli_fmt == formatter_of(op.machine_readable)
          IN  /\ spawned' = Append(spawned, Spawn(list_command, proc))
              /\ CommandReturns(
                     <<IF vms_list.kind = "raise"
                       THEN echo_status_failure(cli_fmt, vms_list.type)
                       ELSE format_list_output(cli_fmt, vms_list.value)>>)
    /\ UNCHANGED <<op, slept, app, vms, bar>>

\* The subcommand export (lines 192-235) up to the return of
\* export_vm's starting call: the overwrite prompt, the call, and what
\* the command does when no operation was started.
Export ==
    /\ pc = "subcommand"
    /\ op.command = "export"
    /\ LET cli_fmt == formatter_of(op.machine_readable)
           interactive == ~(op.machine_readable \/ op.silent)
       IN  IF ~op.silent /\ op.output_file # <<>> /\ op.overwrite = "aborted"
           THEN /\ CommandReturns(<<export_handlers(cli_fmt, "Abort")>>)
                /\ UNCHANGED <<spawned, bar>>
           ELSE IF op.output_file = <<>>
           THEN /\ CommandReturns(
                       <<export_handlers(cli_fmt, "NoOutputFileSpecified")>>)
                /\ UNCHANGED <<spawned, bar>>
           ELSE \E run \in call_veertu_with_name_fallback(
                              export_call(op.vm_id, op.output_file,
                                          op.export_format)) :
                  LET export_result == export_vm_started(run.result)
                  IN  /\ spawned' = spawned \o run.spawned
                      /\ IF export_result.kind = "raise"
                         THEN /\ CommandReturns(
                                    <<export_handlers(cli_fmt,
                                                      export_result.type)>>)
                              /\ bar' = bar
                         ELSE IF export_result.type = "bool"
                         THEN /\ CommandReturns(
                                    export_returned(cli_fmt,
                                        op.machine_readable, op.silent,
                                        export_result))
                              /\ bar' = bar
                         ELSE FollowProgress(export_result, interactive)
    /\ UNCHANGED <<op, slept, app, vms>>

\* The subcommand import (lines 280-328) up to the return of import_vm's
\* starting call.
ImportVm ==
    /\ pc = "subcommand"
    /\ op.command = "import"
    /\ LET cli_fmt == formatter_of(op.machine_readable)
       IN  IF op.get_name_suggestion
           THEN /\ CommandReturns(<<click_echo("Suggested VM name: ", FALSE)>>)
                /\ UNCHANGED <<spawned, bar>>
           ELSE \E proc \in ProcessOutcomes(HandleTexts) :
                  LET started == call_veertu_app(proc, ImportKwargs)
                      import_result == import_vm_started(started)
                  IN  /\ spawned' = Append(spawned,
                             Spawn(import_command(op.input_file, op.vm_name,
                                       op.os_family, op.os_type), proc))
                      /\ IF import_result.kind = "raise"
                         THEN /\ CommandReturns(
                                    <<import_handlers(cli_fmt,
                                                      import_result.type)>>)
                              /\ bar' = bar
                         ELSE FollowProgress(import_result,
                                             ~op.machine_readable)
    /\ UNCHANGED <<op, slept, app, vms>>

\* The progress queries made since the operation was started.
Polls ==
    Cardinality({i \in 1..Len(spawned) :
                    spawned[i].cmd = progress_command(result.value)})

\* One pass of the while loop of _do_import_export_progress_bar (lines
\* 245-262), with what follows the helper when the pass is its last: the
\* status of line 216 or 312, or the except clauses of the command.
ProgressBarPoll ==
    /\ pc = "progress_bar"
    /\ Polls < MaxPolls
    /\ \E proc \in ProcessOutcomes(BarTexts) :
          LET polled == progress(proc)
              verdict == bar_verdict(bar, polled)
              cli_fmt == formatter_of(op.machine_readable)
          IN  /\ spawned' = Append(spawned,
                     Spawn(progress_command(result.value), proc))
              /\ CASE verdict = "caught" ->
                        /\ CommandReturns(<<bar_handlers(polled.type),
                                            completed(op.command, cli_fmt)>>)
                        /\ UNCHANGED <<bar, slept>>
                   [] verdict = "raise" ->
                        /\ CommandReturns(
                              <<command_handlers(op.command, cli_fmt,
                                                 polled.type)>>)
                        /\ UNCHANGED <<bar, slept>>
                   [] verdict = "break" ->
                        /\ CommandReturns(<<completed(op.command, cli_fmt)>>)
                        /\ bar' = bar_update(bar, polled.value)
                        /\ slept' = slept
                   [] OTHER ->
                        /\ bar' = bar_update(bar, polled.value)
                        /\ slept' = IF polled.value = bar.previous_progress
                                    THEN slept + 1 ELSE slept
                        /\ UNCHANGED <<pc, result, echoed, exit_code>>
    /\ UNCHANGED <<op, app, vms>>

\* One pass of the loop of progress_loop (lines 453-477) run silently by
\* export_vm or import_vm, with what the command does when the loop ends.
SilentProgressLoop ==
    /\ pc = "progress_loop"
    /\ Polls < MaxPolls
    /\ \E proc \in ProcessOutcomes(BarTexts) :
          LET queried == call_veertu_app(proc, ProgressKwargs)
              verdict == IF queried.kind = "raise" THEN "raise"
                         ELSE loop_verdict(queried.value)
              cli_fmt == formatter_of(op.machine_readable)
          IN  /\ spawned' = Append(spawned,
                     Spawn(progress_command(result.value), proc))
              /\ CASE verdict = "raise" ->
                        /\ CommandReturns(
                              <<command_handlers(op.command, cli_fmt,
                                                 queried.type)>>)
                        /\ slept' = slept
                   [] verdict = "fail" ->
                        /\ CommandReturns(
                              <<command_handlers(op.command, cli_fmt,
                                    "ImportExportFailedException")>>)
                        /\ slept' = slept
                   [] verdict = "break" ->
                        /\ CommandReturns(
                              IF op.command = "export"
                              THEN export_returned(cli_fmt,
                                       op.machine_readable, op.silent,
                                       Return("bool", TRUE))
                              ELSE import_returned(cli_fmt,
                                       Return("bool", TRUE)))
                        /\ slept' = slept
                   [] OTHER ->
                        /\ slept' = slept + 1
                        /\ UNCHANGED <<pc, result, echoed, exit_code>>
    /\ UNCHANGED <<op, app, vms, bar>>

NextCli ==
    Main \/ ListVms \/ Export \/ ImportVm \/ ProgressBarPoll
    \/ SilentProgressLoop

SpecCli == InitCli /\ [][NextCli]_vars

(***************************************************************************)
(* Properties of the command-line interface, checked under SpecCli.        *)
(***************************************************************************)
\* The startup version check found the application unavailable.
StartupUnavailable ==
    /\ Len(spawned) >= 1
    /\ spawned[1].cmd = version_command
    /\ ProbeUnavailable(spawned[1])

\* C17: when the startup version check finds the application unavailable,
\* the interface reports the 'Veertu app not found' failure, sends no
\* further command to the application, and the process exits with a
\* non-zero status.
C17_StartupUnavailableExitsNonZero ==
    StartupUnavailable =>
        /\ pc = "exited"
        /\ Len(spawned) = 1
        /\ \E i \in 1..Len(echoed) :
              /\ echoed[i].method = "echo_status_failure"
              /\ echoed[i].message = AppNotFoundMessage
        /\ exit_code # NoExitCode
        /\ exit_code # 0

\* The process is a progress query.
IsProgressQuery(process) == process.cmd[1] = "get progress of "

\* What progress made of the query spawned[i].
PolledAt(i) ==
    progress([rc |-> spawned[i].rc, out |-> spawned[i].out,
              err |-> spawned[i].err])

\* A progress poll of the running progress bar failed with a manager error.
BarPollFailed ==
    /\ bar.length > 0
    /\ \E i \in 1..Len(spawned) :
          /\ IsProgressQuery(spawned[i])
          /\ PolledAt(i).kind = "raise"
          /\ Catches("VeertuManagerException", PolledAt(i).type)

\* The command echoed its success status.
EchoedCompleted ==
    \E i \in 1..Len(echoed) :
       /\ echoed[i].method = "echo_status_ok"
       /\ echoed[i].message \in {ExportCompleted, ImportCompleted}

\* C19: when a progress poll of the interactive export or import fails
\* with a manager error while the progress bar runs, the command reports
\* a failure status and never echoes 'Export completed.' or 'Import
\* process completed.'.
C19_PollFailureReportsFailure ==
    (pc = "exited" /\ BarPollFailed) =>
        /\ \E i \in 1..Len(echoed) : echoed[i].method = "echo_status_failure"
        /\ ~EchoedCompleted

(***************************************************************************)
(* The direct call of the name fallback, checked under SpecFallback.       *)
(***************************************************************************)
\* What _call_veertu_app made of the direct call, the first process of a
\* finished _call_veertu_with_name_fallback.
DirectCall ==
    call_veertu_app([rc |-> spawned[1].rc, out |-> spawned[1].out,
                     err |-> spawned[1].err], op.call.kwargs)

\* The direct call failed with a VeertuManagerException that is neither
\* VMNotFoundException nor VeertuAppNotFoundException.
DirectCallFailedGenerically ==
    /\ pc = "done"
    /\ op.name = "_call_veertu_with_name_fallback"
    /\ Len(spawned) >= 1
    /\ spawned[1].rc # 0
    /\ DirectCall.kind = "raise"
    /\ DirectCall.type = "VeertuManagerException"

\* C20: when the direct call fails with a generic VeertuManagerException,
\* no listing and no retry are issued, and the call raises that failure
\* unchanged: the name lookup is entered for no failure other than
\* VMNotFoundException.
C20_GenericFailurePropagates ==
    /\ DirectCallFailedGenerically =>
          /\ Len(spawned) = 1
          /\ result = DirectCall
    /\ (pc = "done" /\ op.name = "_call_veertu_with_name_fallback"
        /\ Len(spawned) > 1) =>
          /\ DirectCall.kind = "raise"
          /\ DirectCall.type = "VMNotFoundException"

\* A call whose command addressed no VM has failed generically.
C20_Witness ==
    /\ DirectCallFailedGenerically
    /\ spawned[1].err = LookupMiss.err
    /\ result = Raise("VeertuManagerException")

(***************************************************************************)
(* Specification SpecLookup: the name lookup of                            *)
(* _call_veertu_with_name_fallback (lines 281-294) from the point where    *)
(* the except clauses of lines 270-277 have let the failure of the direct  *)
(* call fall through.  _call_veertu_app as written raises neither of the   *)
(* two classes those clauses pass, so SpecFallback never gets here; this   *)
(* specification starts at line 281, after a direct call whose command     *)
(* addressed no VM of the application.                                     *)
(***************************************************************************)
InitLookup ==
    /\ pc = "lookup"
    /\ vms \in VmTables
    /\ op \in {[name |-> "_call_veertu_with_name_fallback", call |-> c] :
                  c \in FallbackCalls}
    /\ \A k \in 1..Len(vms) :
          format(op.call.command, op.call.args)
              # Addressing(op.call, vms[k][1])
    /\ app = "Veertu"
    /\ spawned = <<SpawnAs("Veertu", format(op.call.command, op.call.args),
                           LookupMiss)>>
    /\ slept = 0
    /\ result = NoResult
    /\ echoed = <<>>
    /\ exit_code = NoExitCode
    /\ bar = NoBar

\* Lines 281-294, from the listing to the return or raise.
NameLookup ==
    /\ pc = "lookup"
    /\ \E run \in fallback_runs(op.call,
                      format(op.call.command, op.call.args), spawned[1]) :
          /\ spawned' = run.spawned
          /\ result' = run.result
    /\ pc' = "done"
    /\ UNCHANGED <<op, slept, app, vms, echoed, exit_code, bar>>

NextLookup == NameLookup

SpecLookup == InitLookup /\ [][NextLookup]_vars

(***************************************************************************)
(* Properties of the name lookup, checked under SpecLookup.                *)
(***************************************************************************)
\* The listings among the processes of the call.
Listings == {i \in 1..Len(spawned) : spawned[i].cmd = list_command}

\* The VM named like the identifier that comes first in listing order.
FirstNamed ==
    CHOOSE k \in NamedLikeIdentifier : \A j \in NamedLikeIdentifier : k <= j

\* The retry, process 3, addresses the VM of the table at position k.
RetryAddresses(k) == \E i \in 1..Len(spawned[3].cmd) :
                         <<spawned[3].cmd[i]>> = vms[k][1]

\* C21: a finished call has issued at most one listing and at most one
\* retry; a retry comes only after a listing that succeeded and held a VM
\* whose display name is the primary identifier; the retry addresses the
\* first such VM in listing order and no other VM, whatever the retry gives.
C21_OneListingOneRetry ==
    pc = "done" =>
        /\ Cardinality(Listings) <= 1
        /\ Len(spawned) <= 3
        /\ Len(spawned) = 3 =>
              /\ Listings = {2}
              /\ spawned[2].rc = 0
              /\ NamedLikeIdentifier # {}
              /\ RetryAddresses(FirstNamed)
              /\ \A k \in 1..Len(vms) :
                    vms[k][1] # vms[FirstNamed][1] => ~RetryAddresses(k)

\* Two VMs share the name, the retry was issued and it failed.
C21_Witness ==
    /\ pc = "done"
    /\ Len(spawned) = 3
    /\ Cardinality(NamedLikeIdentifier) = 2
    /\ spawned[3].rc # 0

Listed ==
    call_veertu_app([rc |-> spawned[2].rc, out |-> spawned[2].out,
                     err |-> spawned[2].err], list_kwargs)

\* The listing of a finished call failed.
ListingFailed ==
    /\ pc = "done"
    /\ Len(spawned) >= 2
    /\ Listed.kind = "raise"

ReportingOutcomes ==
    {p \in ProcessOutcomes(LoopTexts) :
        /\ p.rc = 0
        /\ \/ is_invalid_reading(strip(p.out))
           \/ /\ FloatParses(strip(p.out))
              /\ \/ FloatAtLeastOne(strip(p.out))
                 \/ FloatNegative(strip(p.out))}

\* An iteration of progress_loop; by its last query within the bound the
\* operation has reported.
ReportingLoopIteration ==
    LoopIteration(IF Len(spawned) + 1 < MaxPolls
                  THEN ProcessOutcomes(LoopTexts)
                  ELSE ReportingOutcomes)

NextProgressFair == Progress \/ ReportingLoopIteration

SpecProgressFair ==
    /\ InitProgress
    /\ [][NextProgressFair]_vars
    /\ WF_vars(ReportingLoopIteration)

(***************************************************************************)
(* Termination of progress_loop, checked under SpecProgressFair.           *)
(***************************************************************************)
\* Query i gave a sentinel.
Sentinel(i) == spawned[i].rc = 0 /\ is_invalid_reading(Reading(i))

\* Query i gave a negative reading.
Negative(i) ==
    /\ spawned[i].rc = 0
    /\ ~is_invalid_reading(Reading(i))
    /\ FloatParses(Reading(i))
    /\ FloatNegative(Reading(i))

\* Query i gave a text that is not a float.
Unparsable(i) ==
    /\ spawned[i].rc = 0
    /\ ~is_invalid_reading(Reading(i))
    /\ ~FloatParses(Reading(i))

\* The process of query i failed.
QueryFailed(i) == spawned[i].rc # 0

\* Query i gave a fraction in [0, 1).
BelowOne(i) ==
    /\ spawned[i].rc = 0
    /\ ~is_invalid_reading(Reading(i))
    /\ IsFraction(Reading(i))
    /\ ~FloatAtLeastOne(Reading(i))

\* progress_loop has returned or raised.
LoopEnded == op.name = "progress_loop" /\ pc = "done"

\* progress_loop ends exactly on the queries that satisfy Ending, and has
\* slept once after every other query.
EndsExactlyOn(Ending(_)) ==
    op.name = "progress_loop" =>
        /\ \A i \in 1..Len(spawned) :
              Ending(i) => i = Len(spawned) /\ LoopEnded
        /\ LoopEnded => Len(spawned) >= 1 /\ Ending(Len(spawned))
        /\ slept = Cardinality({i \in 1..Len(spawned) : ~Ending(i)})

OriginalEnding(i) == Completing(i) \/ Negative(i) \/ Sentinel(i)

AmendedEnding(i) ==
    Completing(i) \/ Negative(i) \/ Sentinel(i) \/ Unparsable(i)
    \/ QueryFailed(i)

\* C24 as stated: progress_loop ends if and only if some reading is
\* >= 1.0, negative or the sentinel, and polls on, sleeping after each
\* query, while no such reading has come.
C24_Original == EndsExactlyOn(OriginalEnding)

\* C24, amended: progress_loop has no iteration bound: it ends if and only
\* if some reading is >= 1.0, negative, the sentinel or not a float, or the
\* query itself fails; after every other reading (a fraction in [0, 1) or a
\* not-a-number) it sleeps and polls again; and against an operation that
\* eventually reports completion or an error it eventually returns or
\* raises.
C24_Amended ==
    /\ []EndsExactlyOn(AmendedEnding)
    /\ (op.name = "progress_loop") ~> LoopEnded

\* The loop slept after a fraction below one and ended on a text that is
\* not a float.
C24_Witness ==
    /\ LoopEnded
    /\ Len(spawned) = 2
    /\ BelowOne(1)
    /\ Unparsable(2)
    /\ slept = 1
    /\ result = Raise("ImportExportFailedException")

(***************************************************************************)
(* The tokens of the tokenizer, checked under Spec.                        *)
(***************************************************************************)
\* A finished call of _split_and_strip on an input that is neither empty
\* nor whitespace only.
TokenizedNonDegenerate ==
    /\ pc = "done"
    /\ op.name = "_split_and_strip"
    /\ strip(op.text) # <<>>

\* The token the claim gives for a piece.
token_of(piece) ==
    IF strip(piece) = <<MissingValue>> THEN <<"-">> ELSE strip(piece)

\* C25: for a non-degenerate input the result has one token per
\* comma-separated piece, in order; each token is its piece stripped of
\* surrounding whitespace, '-' when the stripped piece is 'missing value',
\* and the stripped piece unchanged otherwise.
C25_TokenPerPiece ==
    TokenizedNonDegenerate =>
        LET pieces == split(op.text, ",")
        IN  /\ Len(result.value) = Len(pieces)
            /\ \A i \in 1..Len(pieces) : result.value[i] = token_of(pieces[i])

(***************************************************************************)
(* The progress bar and the handles, checked under SpecCli.                *)
(***************************************************************************)
\* Poll i of the running progress bar read a raw fraction f >= 1.0.
BarReadOne(i) ==
    /\ bar.length > 0
    /\ IsProgressQuery(spawned[i])
    /\ Completing(i)

\* C26: the progress bar ends once the raw fraction has reached 1.0, for
\* the bar of length 100 and for the bar of length 200: a poll that reads
\* f >= 1.0 is the last poll and the command has returned.
C26_BarEndsAtOne ==
    \A i \in 1..Len(spawned) :
       BarReadOne(i) => i = Len(spawned) /\ pc = "exited"

\* Process i is the command that starts an export or an import, and the
\* application answered it with an invalid handle.
StartedInvalid(i) ==
    /\ spawned[i].cmd[1] \in {"export ", "import "}
    /\ spawned[i].rc = 0
    /\ strip(spawned[i].out) \in {<<>>, <<"0">>, <<"-">>}

\* The command echoed a failure status with this message.
EchoedFailure(message) ==
    \E i \in 1..Len(echoed) :
       /\ echoed[i].method = "echo_status_failure"
       /\ echoed[i].message = message

\* C29: when the command that starts an export or an import returns an
\* empty handle, "0" or "-", no progress query is issued and no progress
\* bar is opened: the command returns at once, the interactive export
\* reporting that the export did not start (export_vm returned False) and
\* the import reporting the ImportExportFailedException of import_vm.
C29_NoPollForInvalidHandle ==
    \A i \in 1..Len(spawned) :
       StartedInvalid(i) =>
          /\ i = Len(spawned)
          /\ pc = "exited"
          /\ bar = NoBar
          /\ ~EchoedCompleted
          /\ op.command = "import" =>
                EchoedFailure("Veertu failed to import. Error: ")
          /\ (op.command = "export" /\ ~op.machine_readable /\ ~op.silent) =>
                EchoedFailure(
                    "Could not export vm. Export process did not start.")

\* An interactive export was answered with the handle "0".
C29_Witness ==
    /\ pc = "exited"
    /\ op.command = "export"
    /\ ~op.machine_readable /\ ~op.silent
    /\ Len(spawned) = 2
    /\ StartedInvalid(2)
    /\ strip(spawned[2].out) = <<"0">>
    /\ EchoedFailure("Could not export vm. Export process did not start.")

(***************************************************************************)
(* The frame of _verify_app_name, checked under SpecManager.               *)
(***************************************************************************)
\* The step is one liveness probe after which __init__ does not store a
\* name (line 105 is not reached, or not yet): self.app after the step is
\* self.app as _verify_app_name left it.
ProbeLeftAlone == pc = "init" /\ pc' # "constructed"

\* C30: _verify_app_name is frame-preserving on the application name: on
\* every exit path of a liveness probe (the probe succeeded, failed with
\* VeertuAppNotFoundException, failed with another manager error, or raised
\* any other error) self.app equals its value before the probe.
C30_VerifyPreservesAppName == [][ProbeLeftAlone => app' = app]_vars

(***************************************************************************)
(* show and delete of the manager, and the subcommand delete of the        *)
(* command-line interface.                                                 *)
(***************************************************************************)
\* delete (lines 378-380): the call of _call_veertu_with_name_fallback.
delete_call(vm_id) ==
    [caller   |-> "delete",
     command  |-> <<"delete ", "vm", " id \"", "{}", "\"">>,
     args     |-> <<vm_id>>,
     id_arg   |-> 1,
     id_value |-> vm_id,
     kwargs   |-> [scalar |-> TRUE]]

\* get_port_forwarding: the command and the options of lines 312-320.
port_forwarding_command(vm_id) ==
    format(<<"{{", "name, protocol, host ip, host port, guest ip, guest port",
             "}}", " of port forwarding of advanced settings of ", "vm",
             " id \"", "{}", "\"">>, <<vm_id>>)

port_forwarding_kwargs ==
    [return_as_dict |-> FALSE,
     projection |-> <<<<"name", TRUE>>, <<"protocol", TRUE>>,
                      <<"host_ip", TRUE>>, <<"host_port", TRUE>>,
                      <<"guest_ip", TRUE>>, <<"guest_port", TRUE>>>>,
     return_list_of_dicts |-> TRUE]

\* get_port_forwarding (lines 310-341), given the outcome of its process.
\* The options carry return_as_dict = False, so the test of line 174 does
\* not select the projection decoder: the call returns the tokens of the
\* output and never raises WrongProjectionException (the clause of lines
\* 321-324 is not entered).  The loop of lines 330-333 calls values() on
\* each token, which a str does not have.
get_port_forwarding(proc) ==
    LET port_forwarding_info == call_veertu_app(proc, port_forwarding_kwargs)
    IN  IF port_forwarding_info.kind = "raise" THEN port_forwarding_info
        ELSE IF port_forwarding_info.value = <<>> THEN Return("list", <<>>)
        ELSE Raise("AttributeError")

\* What the process of the port forwarding query can come back with.
PortForwardingOutcomes ==
    {[rc |-> 0, out |-> t, err |-> <<>>] :
        t \in {<<>>, <<"w", "e", "b", ",", " ", "t", "c", "p">>}}
    \cup UnavailableOutcomes \cup FailedOutcomes

\* Python's truth value of what dict.get returned.
Truthy(value) == value # PyNone /\ value # <<>>

\* show(vm_id) with its default options (lines 301-308): every run, as the
\* processes it spawns and what it returns or raises.
show(vm_id) ==
    UNION {
        LET vm_info == run.result
        IN  IF vm_info.kind = "raise" THEN {run}
            ELSE IF vm_info.type # "dict"
            THEN {[spawned |-> run.spawned, result |-> Raise("AttributeError")]}
            ELSE IF ~Truthy(dict_get(vm_info.value, "id")) THEN {run}
            ELSE {LET port_forwarding == get_port_forwarding(proc)
                  IN  [spawned |->
                           Append(run.spawned,
                                  Spawn(port_forwarding_command(
                                            dict_get(vm_info.value, "id")),
                                        proc)),
                       result |->
                           IF port_forwarding.kind = "raise"
                           THEN port_forwarding
                           ELSE Return("dict",
                                    Append(vm_info.value,
                                           <<"port_forwarding",
                                             port_forwarding.value>>))] :
                  proc \in PortForwardingOutcomes} :
        run \in call_veertu_with_name_fallback(show_call(vm_id))}

\* One call of cli_fmt.format_delete_output(success, vm_id).
format_delete_output(formatter, success, vm_id) ==
    [formatter |-> formatter, method |-> "format_delete_output",
     message |-> <<success, vm_id>>]

\* Mutant of confirm_deletion: the deletion goes on whatever was answered.
confirm_deletion_unasked(yes, machine_readable, answer) == "proceed"

\* Lines 170-174 of delete_vm: click.confirm(..., abort=True) is called when
\* neither --yes nor the machine-readable mode is given, and raises Abort
\* unless the user confirms.
confirm_deletion(yes, machine_readable, answer) ==
    IF ~yes /\ ~machine_readable /\ answer # "confirmed" THEN "Abort"
    ELSE "proceed"

\* Lines 178-183: what the except clauses of delete_vm echo for exc.
delete_handlers(formatter, exc) ==
    IF Catches("VMNotFoundException", exc)
    THEN format_vm_not_exist(formatter)
    ELSE IF exc = "Abort"
    THEN click_echo("Deletion aborted by user.", FALSE)
    ELSE echo_status_failure(formatter, exc)

\* Lines 626-628: an exception that no clause of the subcommand catches
\* reaches the last clause of cli_entry_point.
UnexpectedError == "An unexpected error occurred: "

\* The subcommand is left by exception exc: its own clauses or the last
\* clause of cli_entry_point echo, and the process ends.
CommandRaises(formatter, handled, exc) ==
    CommandReturns(<<IF exc = "Abort"
                        \/ Catches("VeertuManagerException", exc)
                     THEN handled
                     ELSE echo_status_failure(formatter, UnexpectedError)>>)

\* The table of the application after run, one complete call of delete:
\* the VM the last command addressed is gone when the application reported
\* the deletion.
after_delete(table, call, run) ==
    IF run.result = Return("bool", TRUE)
    THEN SelectSeq(table,
             LAMBDA vm : run.spawned[Len(run.spawned)].cmd
                             # Addressing(call, vm[1]))
    ELSE table

(***************************************************************************)
(* The mutating calls of the manager that the group modify leads to.       *)
(***************************************************************************)
\* set_headless (lines 606-613) for the value '1'.
set_headless_call(vm_id) ==
    [caller   |-> "set_headless",
     command  |-> <<"set headless of advanced settings of ", "vm", " id \"",
                    "{}", "\" to ", "{}">>,
     args     |-> <<vm_id, <<"true">>>>,
     id_arg   |-> 1,
     id_value |-> vm_id,
     kwargs   |-> [scalar |-> TRUE]]

\* rename (lines 643-648).
rename_call(vm_id, new_name) ==
    [caller   |-> "rename",
     command  |-> <<"rename ", "vm", " id \"", "{}", "\" to name \"", "{}",
                    "\"">>,
     args     |-> <<vm_id, new_name>>,
     id_arg   |-> 1,
     id_value |-> vm_id,
     kwargs   |-> [return_formatted |-> FALSE]]

\* add_port_forwarding (lines 620-636).
add_port_forwarding_call(vm_id, name, host_ip, host_port, guest_port, protocol) ==
    [caller   |-> "add_port_forwarding",
     command  |-> <<"listen on \"", "{}", "\" ", "{}", " port ", "{}",
                    " forward to ", "vm", " id \"", "{}", "\" port ", "{}",
                    " with name \"", "{}", "\"">>,
     args     |-> <<host_ip, protocol, host_port, vm_id, guest_port, name>>,
     id_arg   |-> 4,
     id_value |-> vm_id,
     kwargs   |-> [number |-> TRUE]]

\* add_network_card (lines 670-673).
add_network_card_call(vm_id, connection_type, model) ==
    [caller   |-> "add_network_card",
     command  |-> <<"add network card ", "vm", " id \"", "{}",
                    "\" connection type \"", "{}", "\" model \"", "{}",
                    "\"">>,
     args     |-> <<vm_id, connection_type, model>>,
     id_arg   |-> 1,
     id_value |-> vm_id,
     kwargs   |-> [scalar |-> TRUE]]

\* delete_network_card (lines 676-679).
delete_network_card_call(vm_id, card_index) ==
    [caller   |-> "delete_network_card",
     command  |-> <<"remove network card ", "vm", " id \"", "{}",
                    "\" index ", "{}">>,
     args     |-> <<vm_id, card_index>>,
     id_arg   |-> 1,
     id_value |-> vm_id,
     kwargs   |-> [scalar |-> TRUE]]

(***************************************************************************)
(* Specification SpecCliVm: one run of the command-line interface with the *)
(* subcommand delete or with a subcommand of the group modify.  The        *)
(* options --cpu, --ram, --network-card-idx and --network-type of set are  *)
(* not given in these runs.                                                *)
(***************************************************************************)
VmArguments == {<<"abc">>, <<"box1">>}

ModifySubcommands ==
    {"add port-forwarding", "add network-card", "delete port-forwarding",
     "delete network-card"}

VmInvocations ==
    {[name |-> "cli_entry_point", command |-> "delete",
      machine_readable |-> m, vm_id |-> v, yes |-> y, answer |-> a] :
        m \in BOOLEAN, v \in VmArguments, y \in BOOLEAN,
        a \in {"confirmed", "aborted"}}
    \cup {[name |-> "cli_entry_point", command |-> "modify",
           machine_readable |-> m, vm_id |-> v, subcommand |-> "set",
           headless |-> h, new_name |-> n] :
             m \in BOOLEAN, v \in VmArguments, h \in {PyNone, <<"1">>},
             n \in {PyNone, <<"n">>}}
    \cup {[name |-> "cli_entry_point", command |-> "modify",
           machine_readable |-> m, vm_id |-> v, subcommand |-> s] :
             m \in BOOLEAN, v \in VmArguments, s \in ModifySubcommands}

InitCliVm ==
    /\ pc = "main"
    /\ op \in VmInvocations
    /\ spawned = <<>>
    /\ slept = 0
    /\ result = NoResult
    /\ app = DefaultApp
    /\ vms \in {<<>>, <<<<<<"abc">>, <<"box1">>>>>>}
    /\ echoed = <<>>
    /\ exit_code = NoExitCode
    /\ bar = NoBar

\* ctx.exit(code) in a group callback after echoing lines: no subcommand is
\* invoked, main returns to cli_entry_point, and the process ends.
CommandExits(lines, code) ==
    /\ echoed' = echoed \o lines
    /\ result' = click_main(ClickExit(code))
    /\ exit_code' = cli_entry_point(click_main(ClickExit(code)))
    /\ pc' = "exited"

\* The subcommand delete (lines 158-183).
DeleteVm ==
    /\ pc = "subcommand"
    /\ op.command = "delete"
    /\ LET cli_fmt == formatter_of(op.machine_readable)
       IN  \E shown \in show(op.vm_id) :
             LET vm_details_for_confirm == shown.result
             IN  IF vm_details_for_confirm.kind = "raise"
                 THEN /\ spawned' = spawned \o shown.spawned
                      /\ vms' = vms
                      /\ CommandRaises(cli_fmt,
                             delete_handlers(cli_fmt,
                                 vm_details_for_confirm.type),
                             vm_details_for_confirm.type)
                 ELSE IF confirm_deletion(op.yes, op.machine_readable,
                                          op.answer) = "Abort"
                 THEN /\ spawned' = spawned \o shown.spawned
                      /\ vms' = vms
                      /\ CommandRaises(cli_fmt,
                             delete_handlers(cli_fmt, "Abort"), "Abort")
                 ELSE \E run \in call_veertu_with_name_fallback(
                                    delete_call(op.vm_id)) :
                        LET success == run.result
                        IN  /\ spawned' = spawned \o shown.spawned
                                              \o run.spawned
                            /\ vms' = after_delete(vms,
                                          delete_call(op.vm_id), run)
                            /\ IF success.kind = "raise"
                               THEN CommandRaises(cli_fmt,
                                        delete_handlers(cli_fmt, success.type),
                                        success.type)
                               ELSE CommandReturns(
                                        <<format_delete_output(cli_fmt,
                                              success.value, op.vm_id)>>)
    /\ UNCHANGED <<op, slept, app, bar>>

\* Line 430: the message of the group modify for a manager error.
ErrorVerifying == "Error verifying VM "

\* The callback of the group modify (lines 412-431): the existence check,
\* after which click invokes the subcommand.
Modify ==
    /\ pc = "subcommand"
    /\ op.command = "modify"
    /\ LET cli_fmt == formatter_of(op.machine_readable)
       IN  \E shown \in show(op.vm_id) :
             /\ spawned' = spawned \o shown.spawned
             /\ IF shown.result.kind # "raise"
                THEN /\ pc' = "modify"
                     /\ UNCHANGED <<echoed, result, exit_code>>
                ELSE IF Catches("VMNotFoundException", shown.result.type)
                THEN CommandExits(<<format_vm_not_exist(cli_fmt)>>, 1)
                ELSE IF Catches("VeertuManagerException", shown.result.type)
                THEN CommandExits(
                         <<echo_status_failure(cli_fmt, ErrorVerifying)>>, 1)
                ELSE CommandRaises(cli_fmt, <<>>, shown.result.type)
    /\ UNCHANGED <<op, slept, app, vms, bar>>

\* Python's truth value of what a manager call returned.
Succeeded(returned) ==
    IF returned.type = "bool" THEN returned.value
    ELSE IF returned.type = "int" THEN returned.value # 0
    ELSE returned.value # <<>>

\* A call the subcommand does not make.
NotCalled == {[spawned |-> <<>>, result |-> NoResult]}

\* Two calls in sequence inside one try block: the second is made when the
\* first did not raise, and the run carries both results.
InSequence(first_runs, second_runs) ==
    UNION {IF first.result.kind = "raise"
           THEN {[spawned |-> first.spawned, first |-> first.result,
                  second |-> NoResult]}
           ELSE {[spawned |-> first.spawned \o second.spawned,
                  first |-> first.result, second |-> second.result] :
                    second \in second_runs} :
           first \in first_runs}

\* _add_to_dict over the calls set_options made (lines 475-478 and 500-505): the
\* entries of good_ones when wanted, of bad_ones otherwise.
properties(run, wanted) ==
    (IF run.first.kind = "return" /\ Succeeded(run.first) = wanted
     THEN <<<<"headless", op.headless>>>> ELSE <<>>)
    \o (IF run.second.kind = "return" /\ Succeeded(run.second) = wanted
        THEN <<<<"name", op.new_name>>>> ELSE <<>>)

\* One call of cli_fmt.format_properties_changed(good_ones, bad_ones).
format_properties_changed(formatter, good_ones, bad_ones) ==
    [formatter |-> formatter, method |-> "format_properties_changed",
     message |-> <<good_ones, bad_ones>>]

\* One call of a formatter method that reports the success of one change.
format_change(formatter, method, success) ==
    [formatter |-> formatter, method |-> method, message |-> success]

NoOptionsProvided ==
    "No options provided to set. Use --help for available options."

\* Lines 492-497: what the except clauses of set_options echo for exc.
set_options_handlers(formatter, exc) ==
    IF Catches("VMNotFoundException", exc)
    THEN format_vm_not_exist(formatter)
    ELSE IF Catches("VeertuManagerException", exc)
    THEN echo_status_failure(formatter, exc)
    ELSE echo_status_failure(formatter,
             "An unexpected error occurred while setting options: ")

\* The table of the application after run, one complete call of rename
\* that returned: the VM the last command addressed has the new name.
after_rename(table, call, run, new_name) ==
    IF run.spawned # <<>> /\ run.second.kind = "return"
    THEN [k \in 1..Len(table) |->
             IF run.spawned[Len(run.spawned)].cmd
                    = Addressing(call, table[k][1])
             THEN <<table[k][1], new_name>>
             ELSE table[k]]
    ELSE table

\* The subcommand set of the group modify (lines 434-497), with vm_id as
\* the group stored it in the context (line 421).
SetOptions ==
    /\ pc = "modify"
    /\ op.subcommand = "set"
    /\ LET cli_fmt == formatter_of(op.machine_readable)
           vm_id == op.vm_id
       IN  IF op.headless = PyNone /\ op.new_name = PyNone
           THEN /\ CommandReturns(<<click_echo(NoOptionsProvided, TRUE)>>)
                /\ UNCHANGED <<spawned, vms>>
           ELSE \E run \in InSequence(
                    IF op.headless # PyNone
                    THEN call_veertu_with_name_fallback(
                             set_headless_call(vm_id))
                    ELSE NotCalled,
                    IF op.new_name # PyNone
                    THEN call_veertu_with_name_fallback(
                             rename_call(vm_id, op.new_name))
                    ELSE NotCalled) :
                  /\ spawned' = spawned \o run.spawned
                  /\ vms' = IF op.new_name # PyNone
                            THEN after_rename(vms,
                                     rename_call(vm_id, op.new_name), run,
                                     op.new_name)
                            ELSE vms
                  /\ CommandReturns(
                         <<IF run.first.kind = "raise"
                           THEN set_options_handlers(cli_fmt, run.first.type)
                           ELSE IF run.second.kind = "raise"
                           THEN set_options_handlers(cli_fmt, run.second.type)
                           ELSE format_properties_changed(cli_fmt,
                                    properties(run, TRUE),
                                    properties(run, FALSE))>>)
    /\ UNCHANGED <<op, slept, app, bar>>

\* The callback of the group add (lines 508-515): the context holds the
\* vm_id the group modify stored, and click invokes the subcommand.
Add ==
    /\ pc = "modify"
    /\ op.subcommand \in {"add port-forwarding", "add network-card"}
    /\ pc' = "add"
    /\ UNCHANGED <<op, spawned, slept, result, app, vms, echoed, exit_code,
                   bar>>

\* The callback of the group delete of modify (lines 564-569).
DeleteModifyItems ==
    /\ pc = "modify"
    /\ op.subcommand \in {"delete port-forwarding", "delete network-card"}
    /\ pc' = "delete"
    /\ UNCHANGED <<op, spawned, slept, result, app, vms, echoed, exit_code,
                   bar>>

\* A subcommand that makes one manager call and reports its success with
\* method, or the manager exception with echo_status_failure.
ReportOneCall(call, method) ==
    /\ LET cli_fmt == formatter_of(op.machine_readable)
       IN  \E run \in call_veertu_with_name_fallback(call) :
             /\ spawned' = spawned \o run.spawned
             /\ CommandReturns(
                    <<IF run.result.kind = "raise"
                      THEN echo_status_failure(cli_fmt, run.result.type)
                      ELSE format_change(cli_fmt, method,
                                         Succeeded(run.result))>>)
    /\ UNCHANGED <<op, slept, app, vms, bar>>

\* add port-forwarding (lines 518-547) with the rule web, host port 80 and
\* guest port 8080, and the defaults of --host-ip and --protocol.
AddPortForwardingRule ==
    /\ pc = "add"
    /\ op.subcommand = "add port-forwarding"
    /\ ReportOneCall(
           add_port_forwarding_call(op.vm_id, <<"web">>, <<"0.0.0.0">>,
               <<"80">>, <<"8080">>, <<"tcp">>),
           "format_added_port_forwarding_rule")

\* add network-card (lines 550-561) with the defaults of --type and
\* --model.
AddNetworkCardToVm ==
    /\ pc = "add"
    /\ op.subcommand = "add network-card"
    /\ ReportOneCall(
           add_network_card_call(op.vm_id, <<"shared">>, <<"e1000">>),
           "format_add_network_card")

\* delete port-forwarding (lines 572-582) of the rule web.
DeletePortForwardingRule ==
    /\ pc = "delete"
    /\ op.subcommand = "delete port-forwarding"
    /\ ReportOneCall(remove_port_forwarding_call(op.vm_id, <<"web">>),
                     "format_deleted_port_forwarding_rule")

\* delete network-card (lines 585-595) of the card 0.
DeleteNetworkCardFromVm ==
    /\ pc = "delete"
    /\ op.subcommand = "delete network-card"
    /\ ReportOneCall(delete_network_card_call(op.vm_id, <<"0">>),
                     "format_delete_network_card")

NextCliVm ==
    \/ Main
    \/ DeleteVm
    \/ Modify
    \/ SetOptions
    \/ Add
    \/ AddPortForwardingRule
    \/ AddNetworkCardToVm
    \/ DeleteModifyItems
    \/ DeletePortForwardingRule
    \/ DeleteNetworkCardFromVm

SpecCliVm == InitCliVm /\ [][NextCliVm]_vars

(***************************************************************************)
(* Properties of the subcommand delete, checked under SpecCliVm.           *)
(***************************************************************************)
IsDeleteCommand(process) ==
    \E v \in VmArguments \cup VmIds :
        process.cmd = format(delete_call(v).command, <<v>>)

IsShowQuery(process) ==
    \E v \in VmArguments \cup VmIds :
        process.cmd = format(show_call(v).command, <<v>>)

IsPortForwardingQuery(process) ==
    \E v \in VmArguments \cup VmIds :
        process.cmd = port_forwarding_command(v)

\* Before process i, show(vm_id) returned: its query was answered with a
\* record and the port forwarding query after it with no rule.
ShowSucceededBefore(i) ==
    \E k, j \in 1..(i - 1) :
        /\ k < j
        /\ IsShowQuery(spawned[k])
        /\ call_veertu_app(spawned[k], show_call(op.vm_id).kwargs).kind
               = "return"
        /\ IsPortForwardingQuery(spawned[j])
        /\ get_port_forwarding(spawned[j]).kind = "return"

\* --yes was given, the mode is machine-readable, or the user confirmed.
DeletionAuthorized ==
    op.yes \/ op.machine_readable \/ op.answer = "confirmed"

\* No process answered the query of show.
VmNotShown ==
    \A k \in 1..Len(spawned) : IsShowQuery(spawned[k]) => spawned[k].rc # 0

\* C27: in a run of the subcommand delete, a delete command is sent to the
\* application only after show(vm_id) succeeded in the same run and the
\* deletion was authorized (--yes, machine-readable mode, or the prompt
\* confirmed); when the VM is not found or the user aborts the prompt, no
\* delete command is sent.
C27_DeleteOnlyShownAndAuthorized ==
    op.command = "delete" =>
        /\ \A i \in 1..Len(spawned) :
              IsDeleteCommand(spawned[i]) =>
                  ShowSucceededBefore(i) /\ DeletionAuthorized
        /\ (VmNotShown \/ ~DeletionAuthorized) =>
               \A i \in 1..Len(spawned) : ~IsDeleteCommand(spawned[i])

\* The user confirmed the prompt, and the delete command was sent after
\* show had succeeded; the application reported the deletion.
C27_Witness ==
    /\ pc = "exited"
    /\ op.command = "delete"
    /\ ~op.yes /\ ~op.machine_readable /\ op.answer = "confirmed"
    /\ op.vm_id = <<"abc">>
    /\ \E i \in 1..Len(spawned) :
          IsDeleteCommand(spawned[i]) /\ ShowSucceededBefore(i)
    /\ result = Return("none", <<>>)
    /\ echoed = <<format_delete_output("CliFormatter", TRUE, op.vm_id)>>
    /\ vms = <<>>

(***************************************************************************)
(* Properties of the group modify, checked under SpecCliVm.                *)
(***************************************************************************)
\* The commands of set_headless, rename, add_port_forwarding,
\* add_network_card, remove_port_forwarding and delete_network_card.
IsMutatingCommand(process) ==
    process.cmd[1] \in {set_headless_call(<<>>).command[1],
                        rename_call(<<>>, <<>>).command[1],
                        add_port_forwarding_call(<<>>, <<>>, <<>>, <<>>,
                                                 <<>>, <<>>).command[1],
                        add_network_card_call(<<>>, <<>>, <<>>).command[1],
                        remove_port_forwarding_call(<<>>, <<>>).command[1],
                        delete_network_card_call(<<>>, <<>>).command[1]}

NoMutatingCommand ==
    \A i \in 1..Len(spawned) : ~IsMutatingCommand(spawned[i])

\* No mutating command is sent unless show(vm_id) succeeded before it.
NoMutationUnlessShown ==
    \A i \in 1..Len(spawned) :
        IsMutatingCommand(spawned[i]) => ShowSucceededBefore(i)

\* The existence check of the group failed with VMNotFoundException or
\* with another manager error: the group echoed its report of it.
GroupCheckFailed ==
    /\ echoed # <<>>
    /\ \/ echoed[1].method = "echo_status_failure"
          /\ echoed[1].message = ErrorVerifying
       \/ echoed[1].method = "format_vm_not_exist" /\ NoMutatingCommand

\* The run ended in the group callback: nothing was echoed after its
\* report and no subcommand sent a command.
SubcommandNeverRan == Len(echoed) = 1 /\ NoMutatingCommand

\* C28: in a run of the group modify, no subcommand (set, add
\* port-forwarding, add network-card, delete port-forwarding, delete
\* network-card) sends a mutating command unless the existence check
\* show(vm_id) of the group succeeded first; when the check fails with
\* VMNotFoundException or any manager error, the group exits with status 1
\* and the subcommand body never runs.
C28_ModifyChecksFirst ==
    op.command = "modify" =>
        /\ NoMutationUnlessShown
        /\ (pc = "exited" /\ GroupCheckFailed) =>
               exit_code = 1 /\ SubcommandNeverRan

\* The part of C28 that the exit status does not touch.
ModifyChecksFirstButStatus ==
    op.command = "modify" =>
        /\ NoMutationUnlessShown
        /\ (pc = "exited" /\ GroupCheckFailed) =>
               result = Return("int", 1) /\ SubcommandNeverRan

====
